---------------------------- MODULE Spec2Model ----------------------------
(***************************************************************************)
(* Model of app/main.py of the land-type report exporter: the attribute    *)
(* normalizers, the bore placemark preparation, the single-parcel report   *)
(* build (build_property_report_kmz) and the export orchestrator           *)
(* (export_kmz, export_any, _create_bulk_kmz,                              *)
(* _create_property_report_zip).                                           *)
(*                                                                         *)
(* Python text is a sequence of one-character strings; Python None is the  *)
(* value None below; a dict read with .get() is a function whose missing   *)
(* keys hold None.                                                         *)
(***************************************************************************)
EXTENDS Integers, Sequences, FiniteSets, TLC

VARIABLES
    normIn, normOut,            \* one call of a pure helper: its arguments, its result
    boreIn, boreOut,            \* one _prepare_bore_placemarks call
    buildIn, buildOut,          \* one build_property_report_kmz call
    payload, pc, mode, items, idx,          \* one export request and its loop position
    upLog, fetchLog, ioLog,                 \* builds made, fetches issued, archives written
    nested_groups, kmz_assets, reports,     \* the bulk loops' accumulators
    response, tmpfs                         \* the HTTP outcome, leftover temp paths

vars == <<normIn, normOut, boreIn, boreOut, buildIn, buildOut,
          payload, pc, mode, items, idx, upLog, fetchLog, ioLog,
          nested_groups, kmz_assets, reports, response, tmpfs>>

normVars  == <<normIn, normOut>>
boreVars  == <<boreIn, boreOut>>
buildVars == <<buildIn, buildOut>>
exportVars == <<payload, pc, mode, items, idx, upLog, fetchLog, ioLog,
                nested_groups, kmz_assets, reports, response, tmpfs>>

-----------------------------------------------------------------------------
(* Bounds of the model *)

\* keys of one raw attribute mapping that hold a value
MaxProps == 2
\* bore features in one upstream bore collection
MaxBores == 3
\* identifiers in the lotplans list of one export request
MaxItems == 2
\* characters of a text handed to _safe_float
MaxText == 3

-----------------------------------------------------------------------------
(* Python values *)

None == <<"None">>

\* bool(v) of a text-or-None value
Truthy(v) == v # None /\ v # <<>>

\* a or b
Or(a, b) == IF Truthy(a) THEN a ELSE b

\* a or b or c or d
Or4(a, b, c, d) == Or(Or(Or(a, b), c), d)

IsSpace(c) == c = " "

RECURSIVE lstrip(_)
lstrip(s) == IF s = <<>> THEN <<>>
             ELSE IF IsSpace(Head(s)) THEN lstrip(Tail(s)) ELSE s

RECURSIVE rstrip(_)
rstrip(s) == IF s = <<>> THEN <<>>
             ELSE IF IsSpace(s[Len(s)]) THEN rstrip(SubSeq(s, 1, Len(s) - 1)) ELSE s

\* str.strip()
strip(s) == rstrip(lstrip(s))

UpperChar(c) == CASE c = "a" -> "A"
                  [] c = "b" -> "B"
                  [] c = "c" -> "C"
                  [] c = "r" -> "R"
                  [] OTHER -> c

\* str.upper()
upper(s) == [i \in 1..Len(s) |-> UpperChar(s[i])]

RECURSIVE remove_spaces(_)
remove_spaces(s) == IF s = <<>> THEN <<>>
                    ELSE IF IsSpace(Head(s)) THEN remove_spaces(Tail(s))
                    ELSE <<Head(s)>> \o remove_spaces(Tail(s))

\* the texts the normalizers are tried on: empty, blank, padded, plain
TextSamples == { <<>>, <<" ">>, <<"a">>, <<" ", "a", " ">>, <<"b">> }

\* the dicts over keys with at most n keys set, the values drawn from vals
RECURSIVE SparseProps(_, _, _)
SparseProps(keys, vals, n) ==
    IF n = 0 THEN { [k \in keys |-> None] }
    ELSE LET fewer == SparseProps(keys, vals, n - 1)
         IN  fewer \cup { [f EXCEPT ![k] = v] : f \in fewer, k \in keys, v \in vals }

\* the result of a function that returns None instead of a dict
NoRecord == [absent |-> TRUE]

\* a key the returned dict does not hold
Missing == <<"Missing">>

-----------------------------------------------------------------------------
(* Helpers of app/bores.py and app/arcgis.py *)

\* " rn 0123 " -> "RN0123": blanks dropped, upper case; None stays None
normalize_bore_number(value) ==
    IF value = None THEN None ELSE upper(remove_spaces(value))

\* ("ex", "ab") -> "EX,AB"; either code missing -> None
make_bore_icon_key(status, bore_type) ==
    LET s == IF status = None THEN <<>> ELSE upper(strip(status))
        t == IF bore_type = None THEN <<>> ELSE upper(strip(bore_type))
    IN  IF s = <<>> \/ t = <<>> THEN None ELSE s \o <<",">> \o t

\* a date already given as text is kept (trimmed); nothing usable -> None
normalize_bore_drill_date(value) ==
    IF ~Truthy(value) THEN None
    ELSE IF strip(value) = <<>> THEN None ELSE strip(value)

\* "lot 3 dp 45678" -> "3/DP45678": blanks dropped, upper case; None -> ""
normalize_lotplan(value) ==
    IF value = None THEN <<>> ELSE upper(remove_spaces(value))

-----------------------------------------------------------------------------
(* Attribute normalizers *)

_clean_text(value) == IF value = None THEN <<>> ELSE strip(value)

\* value or None, of a str
_or_none(value) == IF value = <<>> THEN None ELSE value

BoreNumberAliases == <<"bore_number", "BORE_NUMBER_FIELD", "rn", "rn_char">>
BoreStatusAliases == <<"status", "status_code", "BORE_STATUS_CODE_FIELD", "facility_status">>
BoreStatusLabelAliases ==
    <<"status_label", "BORE_STATUS_LABEL_FIELD", "statusLabel", "facility_status_decode">>
BoreTypeAliases == <<"type", "type_code", "BORE_TYPE_CODE_FIELD", "facility_type">>
BoreTypeLabelAliases ==
    <<"type_label", "BORE_TYPE_LABEL_FIELD", "typeLabel", "facility_type_decode">>
BoreDrillDateAliases == <<"drilled_date", "BORE_DRILL_DATE_FIELD">>
BoreReportUrlAliases == <<"report_url", "BORE_REPORT_URL_FIELD">>

Range(s) == { s[i] : i \in 1..Len(s) }

BoreKeys == Range(BoreNumberAliases) \cup Range(BoreStatusAliases)
            \cup Range(BoreStatusLabelAliases) \cup Range(BoreTypeAliases)
            \cup Range(BoreTypeLabelAliases) \cup Range(BoreDrillDateAliases)
            \cup Range(BoreReportUrlAliases) \cup {"icon_key"}

\* props.get(a1) or props.get(a2) or ... over the listed aliases
RECURSIVE GetFirst(_, _)
GetFirst(props, aliases) ==
    IF Len(aliases) = 1 THEN props[aliases[1]]
    ELSE Or(props[aliases[1]], GetFirst(props, Tail(aliases)))

\* a guard that only tests for None
BoreNumberUsable_OnlyNone(bore_number) == bore_number # None

\* "if not bore_number: return None", negated
BoreNumberUsable(bore_number) == Truthy(bore_number)

_normalize_bore_properties(raw) ==
    LET props == raw
        bore_number == normalize_bore_number(GetFirst(props, BoreNumberAliases))
        status_code == _clean_text(GetFirst(props, BoreStatusAliases))
        status_label == _clean_text(GetFirst(props, BoreStatusLabelAliases))
        bore_type_code == _clean_text(GetFirst(props, BoreTypeAliases))
        bore_type_label == _clean_text(GetFirst(props, BoreTypeLabelAliases))
        drilled_date == normalize_bore_drill_date(GetFirst(props, BoreDrillDateAliases))
        report_url == _clean_text(GetFirst(props, BoreReportUrlAliases))
        icon_key == IF Truthy(props["icon_key"]) THEN props["icon_key"]
                    ELSE make_bore_icon_key(status_code, bore_type_code)
    IN  IF ~BoreNumberUsable(bore_number) THEN NoRecord
        ELSE [ bore_number  |-> bore_number,
               status       |-> _or_none(status_code),
               status_label |-> Or(_or_none(status_label), _or_none(status_code)),
               type         |-> _or_none(bore_type_code),
               type_label   |-> Or(_or_none(bore_type_label), _or_none(bore_type_code)),
               drilled_date |-> drilled_date,
               report_url   |-> _or_none(report_url),
               icon_key     |-> icon_key ]

-----------------------------------------------------------------------------
(* Numbers *)

\* a Python number n
Num(n) == <<"#", n>>

\* a Python int too large for a float (above about 1.8e308)
HugeInt == <<"#huge", "int", "">>

\* float("nan")
NaN == <<"#nan", "float", "">>

\* an exception of the named class leaves the call
Raised(class) == <<"raise", class, "">>

IsRaised(v) == Len(v) = 3 /\ v[1] = "raise"

\* isinstance(value, (int, float))
IsNum(v) == (Len(v) = 2 /\ v[1] \in {"#", "#/10000"}) \/ v = HugeInt \/ v = NaN

\* float(number): OverflowError for an int beyond the float range
FloatOfNumber(v) == IF v = HugeInt THEN Raised("OverflowError") ELSE v

Digits == {"0", "1", "2"}

DigitValue(c) == CASE c = "0" -> 0 [] c = "1" -> 1 [] c = "2" -> 2 [] OTHER -> 0

RECURSIVE remove_commas(_)
remove_commas(s) == IF s = <<>> THEN <<>>
                    ELSE IF Head(s) = "," THEN remove_commas(Tail(s))
                    ELSE <<Head(s)>> \o remove_commas(Tail(s))

\* the value of a text of decimal digits
RECURSIVE DecimalValue(_)
DecimalValue(s) == IF s = <<>> THEN 0
                   ELSE 10 * DecimalValue(SubSeq(s, 1, Len(s) - 1)) + DigitValue(s[Len(s)])

\* the text is one of the words float() reads as not-a-number
IsNaNText(text) == text = <<"n", "a", "n">>

\* float(text) succeeds: here, on texts of decimal digits and on "nan"
FloatParses(text) ==
    (text # <<>> /\ \A i \in 1..Len(text) : text[i] \in Digits) \/ IsNaNText(text)

\* float(text) of a text that parses
FloatOfText(text) == IF IsNaNText(text) THEN NaN ELSE Num(DecimalValue(text))

\* lines 186-191, text being the trimmed text
SafeFloatOfText(text) ==
    IF text = <<>> THEN None
    ELSE IF FloatParses(remove_commas(text)) THEN FloatOfText(remove_commas(text))
    ELSE None

_safe_float(value) ==
    IF value = None THEN None
    ELSE IF IsNum(value) THEN FloatOfNumber(value)
    ELSE SafeFloatOfText(strip(value))

-----------------------------------------------------------------------------
(* Easement normalizer *)

EasementLotplanAliases == <<"lotplan", "EASEMENT_LOTPLAN_FIELD", "lot_plan">>
EasementParcelTypeAliases == <<"parcel_type", "EASEMENT_PARCEL_TYPE_FIELD">>
EasementNameAliases == <<"name", "EASEMENT_FEATURE_NAME_FIELD">>
EasementAliasAliases == <<"alias", "feat_alias", "feature_alias">>
EasementTenureAliases == <<"tenure", "EASEMENT_TENURE_FIELD">>

EasementKeys == Range(EasementLotplanAliases) \cup Range(EasementParcelTypeAliases)
                \cup Range(EasementNameAliases) \cup Range(EasementAliasAliases)
                \cup Range(EasementTenureAliases) \cup {"area_m2", "EASEMENT_AREA_FIELD"}

\* area_m2 / 10000.0, kept as the quotient it is
Hectares(area_m2) == <<"#/10000", area_m2[2]>>

_normalize_easement_properties(raw, lotplan) ==
    LET props == raw
        owner_lp == normalize_lotplan(Or(GetFirst(props, EasementLotplanAliases), lotplan))
        parcel_type == _clean_text(GetFirst(props, EasementParcelTypeAliases))
        name == _clean_text(GetFirst(props, EasementNameAliases))
        alias == _clean_text(GetFirst(props, EasementAliasAliases))
        tenure == _clean_text(GetFirst(props, EasementTenureAliases))
        area_value == IF props["area_m2"] = None THEN props["EASEMENT_AREA_FIELD"]
                      ELSE props["area_m2"]
        area_m2 == _safe_float(area_value)
    IN  [ lotplan     |-> Or(owner_lp, lotplan),
          parcel_type |-> Or(parcel_type, None),
          name        |-> Or(Or(name, alias), None),
          tenure      |-> Or(tenure, None),
          alias       |-> IF Truthy(alias) THEN alias ELSE Missing,
          area_m2     |-> IF area_m2 # None THEN area_m2 ELSE Missing,
          area_ha     |-> IF area_m2 # None THEN Hectares(area_m2) ELSE Missing ]

-----------------------------------------------------------------------------
(* Bore icons and placemarks *)

LowerChar(c) == CASE c = "A" -> "a"
                  [] c = "B" -> "b"
                  [] c = "C" -> "c"
                  [] c = "R" -> "r"
                  [] c = "E" -> "e"
                  [] c = "G" -> "g"
                  [] c = "J" -> "j"
                  [] c = "N" -> "n"
                  [] c = "P" -> "p"
                  [] OTHER -> c

\* str.lower()
lower(s) == [i \in 1..Len(s) |-> LowerChar(s[i])]

IsAlnum(c) == c \in {"a", "b", "c", "r", "A", "B", "C", "R", "0", "1", "2"}

_slugify_icon_key(icon_key) ==
    LET key == [i \in 1..Len(strip(icon_key)) |->
                   LET c == LowerChar(strip(icon_key)[i])
                   IN  IF c = "," THEN "_" ELSE c]
        slug == [i \in 1..Len(key) |-> IF IsAlnum(key[i]) \/ key[i] = "_" THEN key[i] ELSE "_"]
    IN  IF slug = <<>> THEN <<"i", "c", "o", "n">> ELSE slug

_ICON_EXTENSIONS(content_type) ==
    CASE content_type = "image/png" -> "png"
      [] content_type = "image/jpeg" -> "jpg"
      [] content_type = "image/jpg" -> "jpg"
      [] OTHER -> "png"

\* (content_type or "").lower(), for the content types of the samples
LowerContentType(content_type) ==
    CASE content_type = "IMAGE/PNG" -> "image/png"
      [] content_type = "IMAGE/JPEG" -> "image/jpeg"
      [] content_type = "Image/Jpg" -> "image/jpg"
      [] OTHER -> content_type

\* "icons/{slug}.{ext}"
_icon_href_for_key(icon_key, content_type) ==
    [dir |-> "icons", slug |-> _slugify_icon_key(icon_key),
     ext |-> _ICON_EXTENSIONS(LowerContentType(content_type))]

\* the characters of an extension of the table
ExtChars(ext) ==
    CASE ext = "png" -> <<"p", "n", "g">>
      [] ext = "jpg" -> <<"j", "p", "g">>
      [] OTHER -> <<>>

\* the href as the text it is: f"icons/{slug}.{ext}"
HrefText(href) ==
    <<"i", "c", "o", "n", "s", "/">> \o href.slug \o <<".">> \o ExtChars(href.ext)

\* the keys of _ICON_EXTENSIONS in the order of the dict literal
IconMimes == <<"image/png", "image/jpeg", "image/jpg">>

\* lines 301-304: _EXT_CONTENT_TYPES, each extension with the first content
\* type of the table that has it; "" for an extension not in it
_EXT_CONTENT_TYPES(ext) ==
    LET hits == { i \in 1..Len(IconMimes) : ExtChars(_ICON_EXTENSIONS(IconMimes[i])) = ext }
    IN  IF hits = {} THEN ""
        ELSE IconMimes[CHOOSE i \in hits : \A j \in hits : i <= j]

\* the last index of a character in a text, 0 when it is not there
LastIndexOf(text, c) ==
    IF \A i \in 1..Len(text) : text[i] # c THEN 0
    ELSE CHOOSE i \in 1..Len(text) : text[i] = c /\ \A j \in (i + 1)..Len(text) : text[j] # c

\* os.path.splitext(path)[1]: from the last dot of the last component on,
\* unless only dots stand before it in that component
splitext(path) ==
    IF /\ LastIndexOf(path, ".") > LastIndexOf(path, "/")
       /\ \E i \in (LastIndexOf(path, "/") + 1)..(LastIndexOf(path, ".") - 1) : path[i] # "."
    THEN SubSeq(path, LastIndexOf(path, "."), Len(path))
    ELSE <<>>

\* str.lstrip(".")
RECURSIVE lstrip_dots(_)
lstrip_dots(s) == IF s = <<>> THEN <<>>
                  ELSE IF Head(s) = "." THEN lstrip_dots(Tail(s)) ELSE s

\* lines 318-321, ext_clean being the lowered extension without its dot
ContentTypeOfExt(ext_clean) ==
    IF ext_clean # <<>> /\ _EXT_CONTENT_TYPES(ext_clean) # ""
    THEN _EXT_CONTENT_TYPES(ext_clean)
    ELSE "image/png"

_icon_content_type_from_href(icon_href) ==
    ContentTypeOfExt(lstrip_dots(lower(splitext(IF icon_href = None THEN <<>> ELSE icon_href))))

\* the icon table of app/bores.py: the definition of a known status,type key
get_bore_icon_by_key(icon_key) ==
    IF upper(strip(icon_key)) = <<"A", ",", "B">>
    THEN [key |-> <<"A", ",", "B">>, image_data |-> <<"base64", "ab">>, content_type |-> "image/png"]
    ELSE NoRecord

\* base64.b64decode of an icon's image_data
b64decode(image_data) ==
    IF image_data = <<"base64", "ab">> THEN <<"bytes", "ab">> ELSE None

\* combine(label, code) of _format_bore_description
combine(label, code) ==
    LET label_clean == IF label = None THEN <<>> ELSE strip(label)
        code_clean == IF code = None THEN <<>> ELSE strip(code)
    IN  IF label_clean # <<>> /\ code_clean # <<>> /\ upper(label_clean) # upper(code_clean)
        THEN label_clean \o <<" ", "(">> \o code_clean \o <<")">>
        ELSE Or(Or(label_clean, code_clean), None)

\* the parts joined by <br/>, each as (caption, text)
_format_bore_description(props) ==
    LET status_text == combine(props.status_label, props.status)
        type_text == combine(props.type_label, props.type)
    IN  (IF Truthy(status_text) THEN << <<"Status", status_text>> >> ELSE <<>>)
        \o (IF Truthy(type_text) THEN << <<"Type", type_text>> >> ELSE <<>>)
        \o (IF Truthy(props.drilled_date) THEN << <<"Drilled", props.drilled_date>> >> ELSE <<>>)
        \o (IF Truthy(props.report_url) THEN << <<"Report", props.report_url>> >> ELSE <<>>)

(* A bore feature of the upstream collection: geom is what shp_shape and   *)
(* the parcel test make of its geometry, xy its coordinate, properties its *)
(* raw attribute mapping.                                                  *)
(*   "in"/"out": a point inside/outside the parcel; "unknown": a point on  *)
(*   which intersects() raises; "polygon": not a point; "empty": an empty  *)
(*   geometry; "invalid": shp_shape raises.                                *)
BoreGeoms == {"in", "out", "unknown", "polygon", "empty", "invalid"}

\* the feature passes the geometry filter (lines 396-401)
IsPointGeometry(feature) == feature.geom \in {"in", "out", "unknown"}

\* a filter that lets points outside the parcel through
InsideParcel_Ignored(feature, parcel_geom) == TRUE

\* the feature passes the parcel filter (lines 402-407)
InsideParcel(feature, parcel_geom) ==
    parcel_geom = None \/ feature.geom \in {"in", "unknown"}

\* a duplicate test that never finds a duplicate
AlreadySeen_Never(bore_number, seen_numbers) == FALSE

\* "bore_number in seen_numbers"
AlreadySeen(bore_number, seen_numbers) == bore_number \in seen_numbers

\* insert-if-absent into a dict kept as a sequence of (key, value) pairs
\* an insertion that replaces the bytes already held for the key
setdefault_Overwrite(assets, key, value) ==
    IF \E i \in 1..Len(assets) : assets[i][1] = key
    THEN [i \in 1..Len(assets) |-> IF assets[i][1] = key THEN <<key, value>> ELSE assets[i]]
    ELSE Append(assets, <<key, value>>)

setdefault(assets, key, value) ==
    IF \E i \in 1..Len(assets) : assets[i][1] = key THEN assets
    ELSE Append(assets, <<key, value>>)

\* the loop body from line 408 on, props being the normalized attributes:
\* st is (seen_numbers, assets, placemarks) so far
BoreWithProps(st, bore, props) ==
    IF props = NoRecord THEN st
    ELSE IF ~Truthy(props.bore_number) \/ AlreadySeen(props.bore_number, st.seen_numbers)
    THEN st
    ELSE LET icon_key == props.icon_key
             icon_def == IF Truthy(icon_key) THEN get_bore_icon_by_key(icon_key)
                         ELSE NoRecord
             image_data == IF icon_def # NoRecord THEN icon_def.image_data ELSE None
             icon_bytes == IF image_data # None THEN b64decode(image_data) ELSE None
             has_icon == icon_bytes # None
             icon_href == IF has_icon
                          THEN _icon_href_for_key(icon_key, icon_def.content_type)
                          ELSE NoRecord
         IN  [ seen_numbers |-> st.seen_numbers \cup {props.bore_number},
               assets |-> IF has_icon
                          THEN setdefault(st.assets, icon_href, icon_bytes)
                          ELSE st.assets,
               placemarks |-> Append(st.placemarks,
                   [ name |-> props.bore_number,
                     description_html |-> _format_bore_description(props),
                     lon |-> bore.xy,
                     lat |-> bore.xy,
                     style_id |-> IF has_icon
                                  THEN <<"bore_", _slugify_icon_key(icon_key)>>
                                  ELSE None,
                     icon_href |-> icon_href ]) ]

\* one pass of the loop body
BoreLoopBody(st, bore, parcel_geom) ==
    IF ~IsPointGeometry(bore) \/ ~InsideParcel(bore, parcel_geom) THEN st
    ELSE BoreWithProps(st, bore, _normalize_bore_properties(bore.properties))

RECURSIVE BoreLoop(_, _, _)
BoreLoop(st, features, parcel_geom) ==
    IF features = <<>> THEN st
    ELSE BoreLoop(BoreLoopBody(st, Head(features), parcel_geom), Tail(features), parcel_geom)

\* returns (placemarks, assets)
BoreResult(st) == [placemarks |-> st.placemarks, assets |-> st.assets]

_prepare_bore_placemarks(parcel_geom, bore_fc) ==
    BoreResult(BoreLoop([seen_numbers |-> {}, assets |-> <<>>, placemarks |-> <<>>],
                        bore_fc, parcel_geom))

-----------------------------------------------------------------------------
(* Clipping, simplifying, water layers *)

(* A thematic feature of an upstream collection. Its geometry is kept as   *)
(* what the geometry library makes of it: clip is "in" when the clip       *)
(* against the parcel leaves something, "out" when it leaves nothing; simp *)
(* is what simplify() does to the clipped shape ("ok", "empty", "raises"). *)

\* app/geometry.py: the (geom, code, name, area_ha) of every feature whose
\* clip against the parcel is not empty, in input order
prepare_clipped_shapes(fc) ==
    LET kept == SelectSeq([i \in 1..Len(fc) |-> [f |-> fc[i], src |-> i]],
                          LAMBDA e : e.f.clip = "in")
    IN  [i \in 1..Len(kept) |->
            [ geom |-> [src |-> kept[i].src, simp |-> kept[i].f.simp, simplified |-> FALSE],
              code |-> kept[i].f.code,
              name |-> kept[i].f.name,
              area_ha |-> kept[i].f.area ]]

\* the loop of _simplify: shapes whose simplified geometry is empty are left out
RECURSIVE SimplifyLoop(_)
SimplifyLoop(data) ==
    IF data = <<>> THEN <<>>
    ELSE LET shape == Head(data)
             g2 == IF shape.geom.simp = "raises" THEN shape.geom
                   ELSE [shape.geom EXCEPT !.simplified = TRUE]
         IN  IF shape.geom.simp = "empty" THEN SimplifyLoop(Tail(data))
             ELSE <<[shape EXCEPT !.geom = g2]>> \o SimplifyLoop(Tail(data))

\* a _simplify without the fallback to the unsimplified list
_simplify_NoFallback(data) == SimplifyLoop(data)

\* "return tuple(simplified) if simplified else tuple(data)"
_simplify(data) ==
    IF SimplifyLoop(data) # <<>> THEN SimplifyLoop(data) ELSE data

(* A water feature: has_geometry, code (text or None), clip as above,      *)
(* geom_type of the clipped geometry ("Polygon", "Point", "MultiPoint"),   *)
(* parts (the non-empty points of a MultiPoint), serializable (whether     *)
(* shp_mapping succeeds on the clipped geometry).                          *)

\* the features of one layer that go to the clip (lines 545-564)
WaterFeaturesForClip(features) ==
    SelectSeq(features, LAMBDA f : f.has_geometry /\ _clean_text(f.code) # <<>>)

\* what the clip returns for the features handed to it
WaterClipped(features) ==
    SelectSeq(WaterFeaturesForClip(features), LAMBDA f : f.clip = "in")

\* the clipped geometries that serialize (lines 582-585)
WaterRetained(features) == SelectSeq(WaterClipped(features), LAMBDA f : f.serializable)

RECURSIVE WaterPointCount(_)
WaterPointCount(retained) ==
    IF retained = <<>> THEN 0
    ELSE (CASE Head(retained).geom_type = "Point" -> 1
            [] Head(retained).geom_type = "MultiPoint" -> Head(retained).parts
            [] OTHER -> 0)
         + WaterPointCount(Tail(retained))

\* the WaterLayerKMZ of one raw layer; shapes, points and features by number
WaterBundle(layer) ==
    LET retained == WaterRetained(layer.features)
    IN  [ layer_id |-> layer.layer_id,
          layer_title |-> layer.layer_title,
          shapes |-> Len(SelectSeq(retained,
                         LAMBDA f : f.geom_type \notin {"Point", "MultiPoint"})),
          points |-> WaterPointCount(retained),
          features |-> Len(retained) ]

\* the layer is skipped: no features, none usable, or nothing left by the clip
WaterLayerSkipped(layer) ==
    \/ layer.features = <<>>
    \/ WaterFeaturesForClip(layer.features) = <<>>
    \/ WaterClipped(layer.features) = <<>>

RECURSIVE _prepare_water_layers(_)
_prepare_water_layers(water_layers_raw) ==
    IF water_layers_raw = <<>> THEN <<>>
    ELSE (IF WaterLayerSkipped(Head(water_layers_raw)) THEN <<>>
          ELSE <<WaterBundle(Head(water_layers_raw))>>)
         \o _prepare_water_layers(Tail(water_layers_raw))

-----------------------------------------------------------------------------
(* build_property_report_kmz *)

\* the upstream fetches of one build, in call order
FetchOrder == <<"parcel", "landtypes", "bores", "water", "vegetation", "easements">>

\* the vegetation fetch is made only with a configured vegetation service
FetchPlan(world) ==
    SelectSeq(FetchOrder, LAMBDA f : f # "vegetation" \/ world.veg_configured)

\* the fetch named by world.raises is one this build makes
UpstreamRaises(world) == \E i \in 1..Len(FetchPlan(world)) : FetchPlan(world)[i] = world.raises

\* the fetches issued: all of the plan, or up to the one that raises
RECURSIVE FetchesUntil(_, _)
FetchesUntil(plan, failing) ==
    IF plan = <<>> THEN <<>>
    ELSE IF Head(plan) = failing THEN <<Head(plan)>>
    ELSE <<Head(plan)>> \o FetchesUntil(Tail(plan), failing)

\* lines 741-748: vegetation names become "Category <name>"
VegStandardised(veg_fc) ==
    [i \in 1..Len(veg_fc) |-> [veg_fc[i] EXCEPT !.name = <<"Category", veg_fc[i].name>>]]

\* value.replace("|", "/")
ReplaceBar(text) == [i \in 1..Len(text) |-> IF text[i] = "|" THEN "/" ELSE text[i]]

RECURSIVE JoinBar(_)
JoinBar(parts) == IF Len(parts) = 1 THEN parts[1]
                  ELSE parts[1] \o <<"|">> \o JoinBar(Tail(parts))

RECURSIVE StripBar(_)
StripBar(text) ==
    IF text = <<>> THEN <<>>
    ELSE IF Head(text) = "|" THEN StripBar(Tail(text))
    ELSE IF text[Len(text)] = "|" THEN StripBar(SubSeq(text, 1, Len(text) - 1))
    ELSE text

EasementDefaultName == <<"E", "a", "s", "e", "m", "e", "n", "t">>

\* lines 757-775: the identity and metadata of one easement feature
EasementMetaOf(props, lotplan_norm) ==
    LET owner_lp == Or(props.lotplan, lotplan_norm)
        parcel_type == Or(props.parcel_type, <<>>)
        tenure == Or(props.tenure, <<>>)
        alias == IF props.alias = Missing THEN <<>> ELSE props.alias
        display_name == Or(Or(props.name, alias), EasementDefaultName)
        parts == <<owner_lp, parcel_type, tenure, alias, display_name>>
        sanitized == [i \in 1..5 |-> ReplaceBar(parts[i])]
        identifier == Or(StripBar(JoinBar(sanitized)), Or(Or(owner_lp, lotplan_norm), EasementDefaultName))
    IN  [ identifier |-> identifier,
          lotplan |-> owner_lp,
          parcel_type |-> parcel_type,
          tenure |-> tenure,
          alias |-> alias,
          display_name |-> display_name,
          color_key |-> Or(Or(Or(parcel_type, tenure), owner_lp), EasementDefaultName),
          area_ha |-> IF props.area_ha = Missing THEN None ELSE props.area_ha ]

\* line 757: the metadata come from the normalized attributes
EasementMeta(feature, lotplan_norm) ==
    EasementMetaOf(_normalize_easement_properties(feature.properties, lotplan_norm),
                   lotplan_norm)

\* lines 776-785: the feature handed to the clip, with its metadata
EasementFeatureOf(feature, meta) ==
    [ clip |-> feature.clip,
      simp |-> feature.simp,
      area |-> feature.area,
      code |-> meta.identifier,
      name |-> meta.display_name,
      meta |-> meta ]

\* the easement features that have a geometry (lines 754-756)
WithGeometry(easement_fc) == SelectSeq(easement_fc, LAMBDA f : f.has_geometry)

\* lines 753-785: the features handed to the clip, those with a geometry
EasementFeatures(easement_fc, lotplan_norm) ==
    [i \in 1..Len(WithGeometry(easement_fc)) |->
        EasementFeatureOf(WithGeometry(easement_fc)[i],
                          EasementMeta(WithGeometry(easement_fc)[i], lotplan_norm))]

\* easement_meta[identifier]: the metadata of the last feature with that identity
MetaOf(features, identifier) ==
    LET hits == { i \in 1..Len(features) : features[i].code = identifier }
    IN  features[CHOOSE i \in hits : \A j \in hits : j <= i].meta

\* a _display that leaves a blank value blank
_display_NoDash(value) == IF value = None THEN <<>> ELSE strip(value)

\* _display: the trimmed text, "-" when there is none
_display(value) == IF value = None \/ strip(value) = <<>> THEN <<"-">> ELSE strip(value)

\* lines 825-834: the clipped area, or the source record's when that is zero
EasementAreaValue(area_ha, meta) ==
    IF area_ha # None /\ area_ha # Num(0) THEN area_ha
    ELSE IF _safe_float(meta.area_ha) # None THEN _safe_float(meta.area_ha)
    ELSE Num(0)

DigitChars == <<"0", "1", "2", "3", "4", "5", "6", "7", "8", "9">>

\* the decimal text of a natural number
RECURSIVE DecimalText(_)
DecimalText(n) ==
    IF n < 10 THEN <<DigitChars[n + 1]>>
    ELSE DecimalText(n \div 10) \o <<DigitChars[(n % 10) + 1]>>

\* the hundredths of a number, rounded; a quotient half-way between two
\* hundredths rounds as its binary float does and is not among the samples
Hundredths(number) ==
    IF number[1] = "#" THEN 100 * number[2] ELSE (number[2] + 50) \div 100

\* f"{area_value:.2f}"
FormatTwoDecimals(area_value) ==
    DecimalText(Hundredths(area_value) \div 100)
    \o <<".", DigitChars[((Hundredths(area_value) \div 10) % 10) + 1],
              DigitChars[(Hundredths(area_value) % 10) + 1]>>

\* lines 836-842: the five parts of the label; a field name with its colon
\* and blank is one element of the text
desc_parts(owner_lp, parcel_type, tenure, alias, area_value) ==
    << <<"Lot/Plan: ">> \o owner_lp,
       <<"Parcel Type: ">> \o parcel_type,
       <<"Tenure: ">> \o tenure,
       <<"Alias: ">> \o alias,
       <<"Area: ">> \o FormatTwoDecimals(area_value) \o <<" ha">> >>

\* " | ".join(parts); the separator is one element of the text
RECURSIVE JoinLabel(_)
JoinLabel(parts) ==
    IF Len(parts) = 1 THEN parts[1]
    ELSE parts[1] \o <<" | ">> \o JoinLabel(Tail(parts))

\* lines 811-848: the labelled shape of one clipped easement shape
EasementLabelled(shape, meta, lotplan_norm) ==
    [ geom |-> shape.geom,
      code |-> JoinLabel(desc_parts(_display(Or(meta.lotplan, lotplan_norm)),
                                    _display(meta.parcel_type),
                                    _display(meta.tenure),
                                    _display(meta.alias),
                                    EasementAreaValue(shape.area_ha, meta))),
      color_key |-> Or(Or(meta.color_key, shape.code), EasementDefaultName),
      name |-> Or(Or(meta.display_name, shape.name), EasementDefaultName),
      area_ha |-> IF shape.area_ha # None THEN shape.area_ha
                  ELSE EasementAreaValue(shape.area_ha, meta) ]

\* lines 811-848: one labelled easement shape per clipped shape
EasementClipped(easement_clipped_raw, features, lotplan_norm) ==
    [i \in 1..Len(easement_clipped_raw) |->
        EasementLabelled(easement_clipped_raw[i],
                         MetaOf(features, easement_clipped_raw[i].code), lotplan_norm)]

\* lines 879-882
HasWater(water_layers) ==
    \E i \in 1..Len(water_layers) :
        water_layers[i].shapes > 0 \/ water_layers[i].points > 0 \/ water_layers[i].features > 0

\* a not-found test that forgets the bores and the water layers
NothingFound_ShapesOnly(lt_clipped, veg_clipped, easement_clipped, bore_points, water_layers) ==
    lt_clipped = <<>> /\ veg_clipped = <<>> /\ easement_clipped = <<>>

\* line 884: the condition of the 404
NothingFound(lt_clipped, veg_clipped, easement_clipped, bore_points, water_layers) ==
    ~(\/ lt_clipped # <<>>
      \/ veg_clipped # <<>>
      \/ easement_clipped # <<>>
      \/ bore_points # <<>>
      \/ HasWater(water_layers))

\* the child of the Water folder that holds the bore points (line 864)
BoreChild(bore_points) ==
    [name |-> "Groundwater Bores", shapes |-> 0, points |-> Len(bore_points),
     color_key |-> NoRecord]

\* the key handed to color_from_code by a layer's color function, whatever
\* the code: f"WATER-{_layer_id}", _layer_id bound when the function is made
_water_color_fn(code, _layer_id) == <<"WATER-", _layer_id>>

\* the child of one water bundle (lines 866-871), with the key its color
\* function gives for the codes of its shapes
LayerChild(layer) ==
    [name |-> layer.layer_title, shapes |-> layer.shapes, points |-> layer.points,
     color_key |-> _water_color_fn(<<>>, layer.layer_id)]

\* water children with the bores' folder after the layers'
water_children_BoresLast(bore_points, water_layers) ==
    [i \in 1..Len(water_layers) |-> LayerChild(water_layers[i])]
    \o (IF bore_points # <<>> THEN <<BoreChild(bore_points)>> ELSE <<>>)

\* lines 862-871
water_children(bore_points, water_layers) ==
    (IF bore_points # <<>> THEN <<BoreChild(bore_points)>> ELSE <<>>)
    \o [i \in 1..Len(water_layers) |-> LayerChild(water_layers[i])]

\* lines 854-874: the folder tree of the document
TopLevelGroups(lt_clipped, veg_clipped, easement_clipped, bore_points, water_layers) ==
    LET water_children_ == water_children(bore_points, water_layers)
    IN  (IF lt_clipped # <<>> THEN <<[name |-> "Land Types", children |-> <<>>]>> ELSE <<>>)
        \o (IF veg_clipped # <<>> THEN <<[name |-> "Vegetation", children |-> <<>>]>> ELSE <<>>)
        \o (IF easement_clipped # <<>> THEN <<[name |-> "Easements", children |-> <<>>]>> ELSE <<>>)
        \o (IF water_children_ # <<>> THEN <<[name |-> "Water", children |-> water_children_]>>
            ELSE <<>>)

\* app/kml.py write_kmz: the archive is written at out_path ("ok"), or the
\* call raises before creating it ("fail_before") or after ("fail_partial")
write_kmz(fs, outcome) ==
    [ fs |-> IF outcome = "fail_before" THEN fs ELSE fs \cup {"file"},
      raised |-> outcome # "ok" ]

\* a cleanup that only removes the directory
CleanupTemp_DirOnly(fs) == IF fs = {"dir"} THEN {} ELSE fs

\* the finally block: os.remove(out_path) if it exists, then os.rmdir(tmpdir),
\* which fails (and is ignored) unless the directory is empty
CleanupTemp(fs) ==
    LET removed == fs \ {"file"}
    IN  IF removed = {"dir"} THEN {} ELSE removed

\* mkdtemp, write_kmz, read back, finally clean up: the error raised (or
\* "none") and the temporary paths left behind
WriteKmzTemp(io) ==
    LET written == write_kmz({"dir"}, io.write)
        error == IF written.raised THEN "write_error"
                 ELSE IF io.read = "fail" THEN "read_error"
                 ELSE "none"
    IN  [error |-> error, left |-> CleanupTemp(written.fs)]

\* a blank-identifier test that lets the empty identifier through
LotplanRequired_Never(lotplan_norm) == FALSE

\* lines 710-711: "if not lotplan_norm: raise 400"
LotplanRequired(lotplan_norm) == ~Truthy(lotplan_norm)

\* what a build that did not get to the fetches returns
BuildRejected(status) ==
    [ status |-> status, fetches |-> <<>>, lotplan |-> <<>>, landtypes |-> <<>>,
      vegetation |-> <<>>, easements |-> <<>>, water_layers |-> <<>>, bore_points |-> <<>>,
      bore_assets |-> <<>>, top_level_groups |-> <<>>, tmp_left |-> {} ]

\* lines 792-809: the simplification, when a tolerance is given; land types
\* always, the other lists when not empty
Simplified(simplify_tolerance, data, always) ==
    IF simplify_tolerance > 0 /\ (always \/ data # <<>>) THEN _simplify(data) ELSE data

\* lines 884-917: the not-found test, then the archive and the report
Assemble(lotplan_norm, plan, lt_clipped, veg_clipped, easement_clipped, bores, water_layers, written) ==
    [ status |-> IF NothingFound(lt_clipped, veg_clipped, easement_clipped,
                                 bores.placemarks, water_layers)
                 THEN "404"
                 ELSE IF written.error # "none" THEN written.error
                 ELSE "200",
      fetches |-> plan,
      lotplan |-> lotplan_norm,
      landtypes |-> lt_clipped,
      vegetation |-> veg_clipped,
      easements |-> easement_clipped,
      water_layers |-> water_layers,
      bore_points |-> bores.placemarks,
      bore_assets |-> bores.assets,
      top_level_groups |-> TopLevelGroups(lt_clipped, veg_clipped, easement_clipped,
                                          bores.placemarks, water_layers),
      tmp_left |-> IF NothingFound(lt_clipped, veg_clipped, easement_clipped,
                                   bores.placemarks, water_layers)
                   THEN {}
                   ELSE written.left ]

\* lines 750-848: the easements of the report
Easements(simplify_tolerance, easement_features, lotplan_norm) ==
    EasementClipped(Simplified(simplify_tolerance,
                               prepare_clipped_shapes(easement_features), FALSE),
                    easement_features, lotplan_norm)

\* lines 713-917: the build of a normalized identifier
BuildFor(lotplan_norm, simplify_tolerance, world, io) ==
    IF UpstreamRaises(world)
    THEN [BuildRejected("upstream_error") EXCEPT
             !.fetches = FetchesUntil(FetchPlan(world), world.raises),
             !.lotplan = lotplan_norm]
    ELSE Assemble(lotplan_norm,
                  FetchPlan(world),
                  Simplified(simplify_tolerance, prepare_clipped_shapes(world.landtypes), TRUE),
                  IF world.veg_configured
                  THEN Simplified(simplify_tolerance,
                           prepare_clipped_shapes(VegStandardised(world.vegetation)), FALSE)
                  ELSE <<>>,
                  Easements(simplify_tolerance,
                            EasementFeatures(world.easements, lotplan_norm), lotplan_norm),
                  _prepare_bore_placemarks(<<"parcel">>, world.bores),
                  _prepare_water_layers(world.water),
                  WriteKmzTemp(io))

\* lines 709-711, then the rest with the normalized identifier
NormalizedBuild(lotplan_norm, simplify_tolerance, world, io) ==
    IF LotplanRequired(lotplan_norm) THEN BuildRejected("400")
    ELSE BuildFor(lotplan_norm, simplify_tolerance, world, io)

(* build_property_report_kmz(lotplan, simplify_tolerance=...) against the  *)
(* upstream answers of world; io is what the file system does to the       *)
(* archive. status is "200" (a report returned) or the error raised:       *)
(* "400", "404", "upstream_error", "write_error", "read_error".            *)
build_property_report_kmz(lotplan, simplify_tolerance, world, io) ==
    NormalizedBuild(normalize_lotplan(lotplan), simplify_tolerance, world, io)

-----------------------------------------------------------------------------
(* export_kml *)

\* assets.get(icon_href)
AssetData(assets, icon_href) ==
    IF \E i \in 1..Len(assets) : assets[i][1] = icon_href
    THEN (CHOOSE a \in Range(assets) : a[1] = icon_href)[2]
    ELSE None

\* b"": bytes that are there and empty
EmptyBytes == <<"bytes", "">>

\* a data URI of the icon's bytes, f"data:{content_type};base64,{encoded}",
\* or nothing without bytes
_data_uri_for_icon(icon_href, data) ==
    IF data = None \/ data = EmptyBytes THEN NoRecord
    ELSE [data_uri |-> _icon_content_type_from_href(HrefText(icon_href)), encoded |-> data]

\* one point of _inline_point_icon_hrefs
InlinePoint(point, assets) ==
    IF point.icon_href = NoRecord THEN point
    ELSE IF _data_uri_for_icon(point.icon_href, AssetData(assets, point.icon_href)) = NoRecord
    THEN point
    ELSE [point EXCEPT !.icon_href =
             _data_uri_for_icon(point.icon_href, AssetData(assets, point.icon_href))]

_inline_point_icon_hrefs(points, assets) ==
    IF points = <<>> THEN <<>>
    ELSE IF assets = <<>> THEN points
    ELSE [i \in 1..Len(points) |-> InlinePoint(points[i], assets)]

\* the loop of _simp: simplify is called outside any try block, so a raise
\* leaves the loop; shapes whose simplified geometry is empty are left out
RECURSIVE SimpLoop(_, _)
SimpLoop(data, out) ==
    IF data = <<>> THEN [raised |-> FALSE, out |-> out]
    ELSE IF Head(data).geom.simp = "raises" THEN [raised |-> TRUE, out |-> <<>>]
    ELSE IF Head(data).geom.simp = "empty" THEN SimpLoop(Tail(data), out)
    ELSE SimpLoop(Tail(data),
                  Append(out, [Head(data) EXCEPT !.geom.simplified = TRUE]))

\* "return out or data"
SimpReturn(looped, data) ==
    IF looped.raised \/ looped.out # <<>> THEN looped ELSE [raised |-> FALSE, out |-> data]

_simp(data) == SimpReturn(SimpLoop(data, <<>>), data)

\* lines 1766-1777: land types always, vegetation when not empty
KmlSimplified(simplify_tolerance, data, always) ==
    IF simplify_tolerance > 0 /\ (always \/ data # <<>>) THEN _simp(data)
    ELSE [raised |-> FALSE, out |-> data]

KmlRejected(status, lotplan) ==
    [ status |-> status, lotplan |-> lotplan, landtypes |-> <<>>, vegetation |-> <<>>,
      bore_points |-> <<>>, with_veg |-> FALSE ]

\* lines 1766-1789: simplification, icons, the document and its file name
KmlResponse(lotplan, lt, veg, bores) ==
    IF lt.raised \/ veg.raised THEN KmlRejected("simplify_error", lotplan)
    ELSE [ status |-> "200", lotplan |-> lotplan, landtypes |-> lt.out,
           vegetation |-> veg.out,
           bore_points |-> _inline_point_icon_hrefs(bores.placemarks, bores.assets),
           with_veg |-> veg.out # <<>> ]

\* the vegetation of export_kml: fetched only with a configured service
KmlVegetation(world) ==
    IF world.veg_configured
    THEN prepare_clipped_shapes(VegStandardised(world.vegetation))
    ELSE <<>>

(* export_kml(lotplan, simplify_tolerance) against the upstream answers of *)
(* world. status is "200" or the error raised: "404", "upstream_error",    *)
(* "simplify_error" (the exception of geom.simplify).                      *)
export_kml(lotplan, simplify_tolerance, world) ==
    IF world.raises \in {"parcel", "landtypes"}
    THEN KmlRejected("upstream_error", normalize_lotplan(lotplan))
    ELSE IF prepare_clipped_shapes(world.landtypes) = <<>>
    THEN KmlRejected("404", normalize_lotplan(lotplan))
    ELSE IF world.raises = "bores" \/ (world.raises = "vegetation" /\ world.veg_configured)
    THEN KmlRejected("upstream_error", normalize_lotplan(lotplan))
    ELSE KmlResponse(normalize_lotplan(lotplan),
                     KmlSimplified(simplify_tolerance,
                                   prepare_clipped_shapes(world.landtypes), TRUE),
                     KmlSimplified(simplify_tolerance, KmlVegetation(world), FALSE),
                     _prepare_bore_placemarks(<<"parcel">>, world.bores))

-----------------------------------------------------------------------------
(* SpecNorm: one call of a normalizer on a raw attribute mapping *)

\* raw bore mappings: sparse ones, and the same with a registered number set
BoreInputs ==
    LET sparse == SparseProps(BoreKeys, TextSamples, MaxProps)
    IN  { [kind |-> "bore", props |-> p, lotplan |-> None] :
          p \in sparse \cup { [q EXCEPT !["rn"] = <<"r">>] : q \in sparse } }

EasementInputs == { [kind |-> "easement", props |-> p, lotplan |-> lp] :
                    p \in SparseProps(EasementKeys, TextSamples, MaxProps),
                    lp \in {<<"A">>} }

Pending == [pending |-> TRUE]

NormIdle == normIn = Pending /\ normOut = Pending
BoreIdle == boreIn = Pending /\ boreOut = Pending
BuildIdle == buildIn = Pending /\ buildOut = Pending
ExportIdle ==
    /\ payload = Pending /\ pc = "off" /\ mode = "none" /\ items = <<>> /\ idx = 0
    /\ upLog = <<>> /\ fetchLog = <<>> /\ ioLog = <<>> /\ nested_groups = <<>> /\ kmz_assets = <<>>
    /\ reports = <<>> /\ response = Pending /\ tmpfs = {}

InitNorm ==
    /\ normIn \in BoreInputs \cup EasementInputs
    /\ normOut = Pending
    /\ BoreIdle /\ BuildIdle /\ ExportIdle

NormalizeBore ==
    /\ normOut = Pending
    /\ normIn.kind = "bore"
    /\ normOut' = _normalize_bore_properties(normIn.props)
    /\ UNCHANGED <<normIn, boreVars, buildVars, exportVars>>

NormalizeEasement ==
    /\ normOut = Pending
    /\ normIn.kind = "easement"
    /\ normOut' = _normalize_easement_properties(normIn.props, normIn.lotplan)
    /\ UNCHANGED <<normIn, boreVars, buildVars, exportVars>>

NextNorm == NormalizeBore \/ NormalizeEasement

SpecNorm == InitNorm /\ [][NextNorm]_vars

-----------------------------------------------------------------------------
(* SpecBores: one call of _prepare_bore_placemarks *)

NoProps == [k \in BoreKeys |-> None]

\* the same registered number written four ways, another number, a blank one
BoreNumberProps ==
    { [NoProps EXCEPT !["rn"] = <<"R", "1">>],
      [NoProps EXCEPT !["bore_number"] = <<"r", " ", "1", " ">>],
      [NoProps EXCEPT !["rn"] = <<"R", "2">>],
      [NoProps EXCEPT !["rn_char"] = <<" ">>] }

\* bores with status and type codes, so with an icon
BoreIconProps ==
    { [NoProps EXCEPT !["rn"] = <<"R", "1">>, !["status"] = <<"a">>, !["type"] = <<"b">>],
      [NoProps EXCEPT !["rn"] = <<"r", "1">>, !["status_code"] = <<"a">>,
                      !["type_code"] = <<"b">>, !["report_url"] = <<"a">>] }

BoreFeatureSamples ==
    { [geom |-> g, properties |-> q] :
        g \in {"in", "out", "unknown", "polygon"}, q \in BoreNumberProps }
    \cup { [geom |-> g, properties |-> [NoProps EXCEPT !["rn"] = <<"R", "1">>]] :
             g \in {"empty", "invalid"} }
    \cup { [geom |-> "in", properties |-> q] : q \in BoreIconProps }

\* the sequences over S of length at most n
RECURSIVE SeqsUpTo(_, _)
SeqsUpTo(S, n) ==
    IF n = 0 THEN { <<>> }
    ELSE LET shorter == SeqsUpTo(S, n - 1)
         IN  shorter \cup { Append(q, x) : q \in { r \in shorter : Len(r) = n - 1 }, x \in S }

\* a feature collection: each feature at its own coordinate
WithCoordinates(features) ==
    [i \in 1..Len(features) |->
        [geom |-> features[i].geom, properties |-> features[i].properties, xy |-> i]]

InitBores ==
    /\ boreIn \in { [parcel_geom |-> g, bore_fc |-> WithCoordinates(fs)] :
                    g \in {<<"parcel">>, None}, fs \in SeqsUpTo(BoreFeatureSamples, MaxBores) }
    /\ boreOut = Pending
    /\ NormIdle /\ BuildIdle /\ ExportIdle

PrepareBores ==
    /\ boreOut = Pending
    /\ boreOut' = _prepare_bore_placemarks(boreIn.parcel_geom, boreIn.bore_fc)
    /\ UNCHANGED <<boreIn, normVars, buildVars, exportVars>>

NextBores == PrepareBores

SpecBores == InitBores /\ [][NextBores]_vars

-----------------------------------------------------------------------------
(* SpecFloat: one call of _safe_float *)

FloatAlphabet == {"1", "2", ",", " ", "a"}

\* None, ints and floats, an int beyond the float range, texts
FloatInputs ==
    { [kind |-> "float", value |-> v] :
        v \in {None, Num(0), Num(2), <<"#/10000", 2>>, HugeInt, NaN, <<"n", "a", "n">>}
               \cup SeqsUpTo(FloatAlphabet, MaxText) }

InitFloat ==
    /\ normIn \in FloatInputs
    /\ normOut = Pending
    /\ BoreIdle /\ BuildIdle /\ ExportIdle

SafeFloat ==
    /\ normOut = Pending
    /\ normIn.kind = "float"
    /\ normOut' = [result |-> _safe_float(normIn.value)]
    /\ UNCHANGED <<normIn, boreVars, buildVars, exportVars>>

NextFloat == SafeFloat

SpecFloat == InitFloat /\ [][NextFloat]_vars

-----------------------------------------------------------------------------
(* _clip_to_parcel_union                                                   *)
(* A candidate geometry is (is_empty, where): where it lies against the    *)
(* union, "inside", "overlap" or "outside". The parcel union is "none"     *)
(* (None), "empty" or "area". ops says, for each shapely operation the     *)
(* function may call, whether it returns ("ok") or raises ("raises"):      *)
(* "intersects", "plain" (union.intersection(geom)), "repaired" (with      *)
(* make_valid(geom)), "both" (with both repaired).                         *)

ClipOps == {"intersects", "plain", "repaired", "both"}

\* a recovery that goes from the plain intersection straight to both repaired
NextAttempt_SkipRepaired(step) ==
    CASE step = "plain" -> "both"
      [] step = "repaired" -> "both"
      [] OTHER -> "original"

\* lines 206-214: the attempt made when the given one raised
NextAttempt(step) ==
    CASE step = "plain" -> "repaired"
      [] step = "repaired" -> "both"
      [] OTHER -> "original"

\* the nested try blocks of lines 204-214 from one attempt on: the geometry
\* obtained and the attempts made, in order
RECURSIVE ClipFrom(_, _, _, _)
ClipFrom(step, geom, ops, tried) ==
    IF step = "original"
    THEN [clipped |-> [via |-> "original", is_empty |-> FALSE, where |-> geom.where],
          tried |-> Append(tried, step)]
    ELSE IF ops[step] = "ok"
    THEN [clipped |-> [via |-> step, is_empty |-> geom.where = "outside",
                       where |-> geom.where],
          tried |-> Append(tried, step)]
    ELSE ClipFrom(NextAttempt(step), geom, ops, Append(tried, step))

\* an emptiness test of the clipped geometry that never finds it empty
ClippedIsEmpty_Never(clipped) == FALSE

\* line 215: "if clipped.is_empty"
ClippedIsEmpty(clipped) == clipped.is_empty

\* lines 215-216
ClipResult(got) ==
    [value |-> IF ClippedIsEmpty(got.clipped) THEN NoRecord ELSE got.clipped,
     tried |-> got.tried]

\* the value returned (NoRecord for None) and the operations tried
_clip_to_parcel_union(geom, parcel_union, ops) ==
    IF geom.is_empty THEN [value |-> NoRecord, tried |-> <<>>]
    ELSE IF parcel_union \in {"none", "empty"}
    THEN [value |-> [via |-> "unclipped", is_empty |-> FALSE, where |-> geom.where],
          tried |-> <<>>]
    ELSE IF ops["intersects"] = "ok" /\ geom.where = "outside"
    THEN [value |-> NoRecord, tried |-> <<"intersects">>]
    ELSE ClipResult(ClipFrom("plain", geom, ops, <<"intersects">>))

-----------------------------------------------------------------------------
(* SpecIcon: one call of _icon_content_type_from_href, on an href or on the *)
(* href _icon_href_for_key gives for a content type                         *)

HrefDirs == { <<>>, <<"i", "/">>, <<"a", ".", "b", "/">> }
HrefNames == { <<>>, <<"x">>, <<".", "x">>, <<".">> }
HrefExtensions ==
    { <<>>, <<".">>, <<".", "p", "n", "g">>, <<".", "P", "N", "G">>, <<".", "j", "p", "g">>,
      <<".", "J", "p", "g">>, <<".", "j", "p", "e", "g">>, <<".", "J", "P", "E", "G">>,
      <<".", "g", "i", "f">> }

IconInputs ==
    { [kind |-> "href", href |-> d \o n \o e] :
        d \in HrefDirs, n \in HrefNames, e \in HrefExtensions }
    \cup { [kind |-> "href", href |-> None] }
    \cup { [kind |-> "content_type", icon_key |-> k, content_type |-> t] :
             k \in { <<"A", ",", "B">>, <<>> },
             t \in { "image/png", "image/jpeg", "image/jpg", "IMAGE/PNG", "IMAGE/JPEG",
                     "Image/Jpg", "image/gif", "" } }

InitIcon ==
    /\ normIn \in IconInputs
    /\ normOut = Pending
    /\ BoreIdle /\ BuildIdle /\ ExportIdle

IconContentType ==
    /\ normOut = Pending
    /\ normIn.kind = "href"
    /\ normOut' = [result |-> _icon_content_type_from_href(normIn.href)]
    /\ UNCHANGED <<normIn, boreVars, buildVars, exportVars>>

\* the href of a content type, and the content type read back from it
IconRoundTrip ==
    /\ normOut = Pending
    /\ normIn.kind = "content_type"
    /\ normOut' = [result |-> _icon_content_type_from_href(
                                 HrefText(_icon_href_for_key(normIn.icon_key,
                                                             normIn.content_type)))]
    /\ UNCHANGED <<normIn, boreVars, buildVars, exportVars>>

NextIcon == IconContentType \/ IconRoundTrip

SpecIcon == InitIcon /\ [][NextIcon]_vars

-----------------------------------------------------------------------------
(* SpecClip: one call of _clip_to_parcel_union *)

ClipInputs ==
    { [kind |-> "clip", geom |-> [is_empty |-> e, where |-> w], parcel_union |-> u,
       ops |-> o] :
        e \in BOOLEAN, w \in {"inside", "overlap", "outside"},
        u \in {"none", "empty", "area"}, o \in [ClipOps -> {"ok", "raises"}] }

InitClip ==
    /\ normIn \in ClipInputs
    /\ normOut = Pending
    /\ BoreIdle /\ BuildIdle /\ ExportIdle

Clip ==
    /\ normOut = Pending
    /\ normIn.kind = "clip"
    /\ normOut' = _clip_to_parcel_union(normIn.geom, normIn.parcel_union, normIn.ops)
    /\ UNCHANGED <<normIn, boreVars, buildVars, exportVars>>

NextClip == Clip

SpecClip == InitClip /\ [][NextClip]_vars

-----------------------------------------------------------------------------
(* What upstream can answer for one parcel *)

NoEasementProps == [k \in EasementKeys |-> None]

\* a land-type or vegetation feature: clip is where it lies against the
\* parcel, simp what simplify() does to its clipped geometry
ThematicFeature(clip, simp) ==
    [clip |-> clip, simp |-> simp, code |-> <<"L">>, name |-> <<"l">>, area |-> Num(1)]

\* an easement record with an alias and an area attribute of 20000 m2
SourceAreaProps ==
    [NoEasementProps EXCEPT !["alias"] = <<"x">>, !["area_m2"] = Num(20000)]

EasementFeature(has_geometry, clip, simp, properties) ==
    [has_geometry |-> has_geometry, clip |-> clip, simp |-> simp,
     properties |-> properties, area |-> Num(1)]

WaterFeature(code, clip, geom_type, parts, serializable) ==
    [has_geometry |-> TRUE, code |-> code, clip |-> clip, geom_type |-> geom_type,
     parts |-> parts, serializable |-> serializable]

WaterLayer(layer_id, features) ==
    [layer_id |-> layer_id, layer_title |-> <<"W", "a", "t", "e", "r">>, features |-> features]

LandtypeLists ==
    { <<>>,
      <<ThematicFeature("out", "ok")>>,
      <<ThematicFeature("in", "ok")>>,
      <<ThematicFeature("in", "empty")>>,
      <<ThematicFeature("in", "raises")>>,
      <<ThematicFeature("in", "empty"), ThematicFeature("in", "ok")>> }

VegetationLists ==
    { <<>>, <<ThematicFeature("in", "ok")>>, <<ThematicFeature("in", "empty")>> }

EasementLists ==
    { <<>>,
      <<EasementFeature(FALSE, "in", "ok", NoEasementProps)>>,
      <<EasementFeature(TRUE, "out", "ok", NoEasementProps)>>,
      <<EasementFeature(TRUE, "in", "ok", [NoEasementProps EXCEPT !["tenure"] = <<"t">>])>>,
      <<EasementFeature(TRUE, "in", "empty", NoEasementProps)>>,
      <<[EasementFeature(TRUE, "in", "ok", SourceAreaProps) EXCEPT !.area = Num(0)]>>,
      <<[EasementFeature(TRUE, "in", "ok", SourceAreaProps) EXCEPT !.area = None]>>,
      <<[EasementFeature(TRUE, "in", "ok", NoEasementProps) EXCEPT !.area = Num(0)]>>,
      <<EasementFeature(TRUE, "in", "ok", SourceAreaProps)>>,
      <<EasementFeature(TRUE, "in", "ok", [NoEasementProps EXCEPT !["tenure"] = <<"t">>]),
        EasementFeature(TRUE, "in", "ok", [NoEasementProps EXCEPT !["tenure"] = <<"t">>,
                                                                  !["alias"] = <<"x">>])>> }

BoreLists ==
    { WithCoordinates(fs) :
        fs \in { <<>>,
                 <<[geom |-> "in", properties |-> [NoProps EXCEPT !["rn"] = <<"R", "1">>]]>>,
                 <<[geom |-> "out", properties |-> [NoProps EXCEPT !["rn"] = <<"R", "1">>]]>>,
                 <<[geom |-> "in", properties |-> [NoProps EXCEPT !["rn_char"] = <<" ">>]]>>,
                 <<[geom |-> "in",
                    properties |-> [NoProps EXCEPT !["rn"] = <<"R", "1">>,
                                       !["status"] = <<"a">>, !["type"] = <<"b">>]]>> } }

WaterLists ==
    { <<>>,
      <<WaterLayer(1, <<>>)>>,
      <<WaterLayer(1, <<WaterFeature(<<"w">>, "in", "Polygon", 0, TRUE)>>)>>,
      <<WaterLayer(1, <<WaterFeature(<<"w">>, "in", "Point", 0, TRUE)>>)>>,
      <<WaterLayer(1, <<WaterFeature(<<"w">>, "in", "MultiPoint", 0, TRUE)>>)>>,
      <<WaterLayer(1, <<WaterFeature(<<"w">>, "in", "Polygon", 0, FALSE)>>)>>,
      <<WaterLayer(1, <<WaterFeature(<<" ">>, "in", "Polygon", 0, TRUE)>>)>>,
      <<WaterLayer(1, <<WaterFeature(<<"w">>, "out", "Polygon", 0, TRUE)>>),
        WaterLayer(2, <<WaterFeature(<<"w">>, "in", "Polygon", 0, TRUE)>>)>>,
      <<WaterLayer(2, <<WaterFeature(<<"w">>, "in", "Polygon", 0, TRUE)>>),
        WaterLayer(1, <<WaterFeature(<<"v">>, "in", "Point", 0, TRUE)>>)>> }

FetchNames == { FetchOrder[i] : i \in 1..Len(FetchOrder) }

World(veg_configured, raises, landtypes, vegetation, easements, bores, water) ==
    [veg_configured |-> veg_configured, raises |-> raises, landtypes |-> landtypes,
     vegetation |-> vegetation, easements |-> easements, bores |-> bores, water |-> water]

\* every combination of the answers; no fetch raises
AnsweringWorlds ==
    { World(vc, "none", lt, veg, eas, bores, water) :
        vc \in BOOLEAN, lt \in LandtypeLists, veg \in VegetationLists,
        eas \in EasementLists, bores \in BoreLists, water \in WaterLists }

\* the parcel has nothing in any category
EmptyWorld == World(TRUE, "none", <<>>, <<>>, <<>>, <<>>, <<>>)

\* a few parcels, by what they have
UpstreamSamples ==
    { EmptyWorld,
      [EmptyWorld EXCEPT !.landtypes = <<ThematicFeature("in", "ok")>>],
      [EmptyWorld EXCEPT !.landtypes = <<ThematicFeature("in", "empty")>>],
      [EmptyWorld EXCEPT !.landtypes = <<ThematicFeature("out", "ok")>>],
      [EmptyWorld EXCEPT !.bores = WithCoordinates(
           <<[geom |-> "in", properties |-> [NoProps EXCEPT !["rn"] = <<"R", "1">>,
                                 !["status"] = <<"a">>, !["type"] = <<"b">>]]>>)],
      [EmptyWorld EXCEPT !.water =
           <<WaterLayer(1, <<WaterFeature(<<"w">>, "in", "Polygon", 0, TRUE)>>)>>],
      [EmptyWorld EXCEPT !.water =
           <<WaterLayer(1, <<WaterFeature(<<"w">>, "in", "Polygon", 0, FALSE)>>)>>],
      [EmptyWorld EXCEPT !.water =
           <<WaterLayer(2, <<WaterFeature(<<"w">>, "in", "Polygon", 0, TRUE)>>),
             WaterLayer(1, <<WaterFeature(<<"v">>, "in", "Point", 0, TRUE)>>)>>],
      [EmptyWorld EXCEPT
           !.vegetation = <<ThematicFeature("in", "ok")>>,
           !.easements = <<EasementFeature(TRUE, "in", "ok", NoEasementProps)>>] }

\* the same parcels with one of the fetches raising
RaisingWorlds ==
    { [w EXCEPT !.raises = f, !.veg_configured = vc] :
        w \in UpstreamSamples, f \in FetchNames, vc \in BOOLEAN }

IoOutcomes == [write : {"ok", "fail_before", "fail_partial"}, read : {"ok", "fail"}]
IoOk == [write |-> "ok", read |-> "ok"]

\* identifiers as a client writes them: blank, "a", "A" (the same parcel), "b"
RawLotplans == { <<" ">>, <<"a">>, <<"A">>, <<"b">> }

-----------------------------------------------------------------------------
(* SpecBuild: one call of build_property_report_kmz *)

BuildInputs ==
    { [lotplan |-> <<"a">>, simplify_tolerance |-> t, world |-> w, io |-> IoOk] :
        t \in {0, 1}, w \in AnsweringWorlds }
    \cup { [lotplan |-> lp, simplify_tolerance |-> t, world |-> w, io |-> io] :
             lp \in RawLotplans \cup {None}, t \in {0, 1},
             w \in UpstreamSamples \cup RaisingWorlds, io \in IoOutcomes }

InitBuild ==
    /\ buildIn \in BuildInputs
    /\ buildOut = Pending
    /\ NormIdle /\ BoreIdle /\ ExportIdle

Build ==
    /\ buildOut = Pending
    /\ buildOut' = build_property_report_kmz(buildIn.lotplan, buildIn.simplify_tolerance,
                                             buildIn.world, buildIn.io)
    /\ UNCHANGED <<buildIn, normVars, boreVars, exportVars>>

NextBuild == Build

SpecBuild == InitBuild /\ [][NextBuild]_vars

-----------------------------------------------------------------------------
(* SpecKml: one call of export_kml *)

KmlWorlds ==
    { World(vc, r, lt, veg, <<>>, bores, <<>>) :
        vc \in BOOLEAN, r \in {"none", "landtypes", "bores"}, lt \in LandtypeLists,
        veg \in VegetationLists \cup {<<ThematicFeature("in", "raises")>>},
        bores \in BoreLists }

KmlInputs ==
    { [lotplan |-> <<"a">>, simplify_tolerance |-> t, world |-> w] :
        t \in {0, 1}, w \in KmlWorlds }

InitKml ==
    /\ buildIn \in KmlInputs
    /\ buildOut = Pending
    /\ NormIdle /\ BoreIdle /\ ExportIdle

ExportKml ==
    /\ buildOut = Pending
    /\ buildOut' = export_kml(buildIn.lotplan, buildIn.simplify_tolerance, buildIn.world)
    /\ UNCHANGED <<buildIn, normVars, boreVars, exportVars>>

NextKml == ExportKml

SpecKml == InitKml /\ [][NextKml]_vars

-----------------------------------------------------------------------------
(* The export endpoints *)

\* a work list that keeps every occurrence of an identifier
RECURSIVE DedupeLotplans_KeepAll(_, _)
DedupeLotplans_KeepAll(candidates, kept) ==
    IF candidates = <<>> THEN kept
    ELSE IF ~Truthy(normalize_lotplan(Head(candidates)))
    THEN DedupeLotplans_KeepAll(Tail(candidates), kept)
    ELSE DedupeLotplans_KeepAll(Tail(candidates),
                                Append(kept, normalize_lotplan(Head(candidates))))

\* lines 1953-1961: normalized, blanks dropped, first occurrence kept
RECURSIVE DedupeLotplans(_, _)
DedupeLotplans(candidates, kept) ==
    IF candidates = <<>> THEN kept
    ELSE LET lp == normalize_lotplan(Head(candidates))
         IN  IF ~Truthy(lp) \/ lp \in Range(kept)
             THEN DedupeLotplans(Tail(candidates), kept)
             ELSE DedupeLotplans(Tail(candidates), Append(kept, lp))

\* lines 1953-1965: the work list of export_any
WorkItems(request) ==
    LET from_list == IF request.lotplans # <<>>
                     THEN DedupeLotplans(request.lotplans, <<>>) ELSE <<>>
        lp_single == normalize_lotplan(request.lotplan)
    IN  IF Truthy(request.lotplan) /\ Truthy(lp_single) /\ lp_single \notin Range(from_list)
        THEN Append(from_list, lp_single)
        ELSE from_list

\* a work-list test that lets an empty list through
NoItems_Never(work) == FALSE

\* line 1967: "if not items"
NoItems(work) == work = <<>>

\* lines 1973-2009: which export serves the work list
ModeOf(request, work) ==
    IF Len(work) = 1 THEN "single"
    ELSE IF Truthy(request.filename_prefix) THEN "zip"
    ELSE "merged"

\* a loop that swallows the not-found of one identifier and goes on
Raises_ExceptNotFound(report) == report.status \notin {"200", "404"}

\* a loop that swallows an upstream failure and goes on
Raises_ExceptUpstream(report) == report.status \notin {"200", "upstream_error"}

\* the call of build_property_report_kmz stands in no try block (lines
\* 1825-1832, 1919-1926, 1974-1981, 1714-1721): whatever it raises leaves
\* the caller
Raises(report) == report.status # "200"

\* a color function that reads the loop variable when called, after the loop
BulkLayerChild_LastLayer(layers, i) ==
    [name |-> layers[i].layer_title, shapes |-> layers[i].shapes,
     points |-> layers[i].points,
     color_key |-> _water_color_fn(<<>>, layers[Len(layers)].layer_id)]

\* lines 1851-1857: the child of the i-th water bundle of a report
BulkLayerChild(layers, i) ==
    [name |-> layers[i].layer_title, shapes |-> layers[i].shapes,
     points |-> layers[i].points,
     color_key |-> _water_color_fn(<<>>, layers[i].layer_id)]

\* lines 1848-1857
BulkWaterChildren(bore_points, water_layers) ==
    (IF bore_points # <<>> THEN <<BoreChild(bore_points)>> ELSE <<>>)
    \o [i \in 1..Len(water_layers) |-> BulkLayerChild(water_layers, i)]

\* sub-folders of a parcel that leave the vegetation out
Subgroups_NoVegetation(report) ==
    (IF report.landtypes # <<>>
     THEN <<[name |-> "Land Types", shapes |-> Len(report.landtypes), children |-> <<>>]>>
     ELSE <<>>)
    \o (IF report.easements # <<>>
        THEN <<[name |-> "Easements", shapes |-> Len(report.easements), children |-> <<>>]>>
        ELSE <<>>)
    \o (IF BulkWaterChildren(report.bore_points, report.water_layers) # <<>>
        THEN <<[name |-> "Water", shapes |-> 0,
                children |-> BulkWaterChildren(report.bore_points, report.water_layers)]>>
        ELSE <<>>)

\* lines 1834-1860: the sub-folders of one parcel in the merged document
Subgroups(report) ==
    LET water_children_ == BulkWaterChildren(report.bore_points, report.water_layers)
    IN  (IF report.landtypes # <<>>
         THEN <<[name |-> "Land Types", shapes |-> Len(report.landtypes), children |-> <<>>]>>
         ELSE <<>>)
        \o (IF report.vegetation # <<>>
            THEN <<[name |-> "Vegetation", shapes |-> Len(report.vegetation),
                    children |-> <<>>]>>
            ELSE <<>>)
        \o (IF report.easements # <<>>
            THEN <<[name |-> "Easements", shapes |-> Len(report.easements),
                    children |-> <<>>]>>
            ELSE <<>>)
        \o (IF water_children_ # <<>>
            THEN <<[name |-> "Water", shapes |-> 0, children |-> water_children_]>>
            ELSE <<>>)

\* lines 1864-1866: the icon assets of a report, added where the name is new
RECURSIVE MergeAssets(_, _)
MergeAssets(assets, bore_assets) ==
    IF bore_assets = <<>> THEN assets
    ELSE MergeAssets(setdefault(assets, Head(bore_assets)[1], Head(bore_assets)[2]),
                     Tail(bore_assets))

\* the fetches of one build, with the identifier they were made for
FetchesOf(report) ==
    [i \in 1..Len(report.fetches) |-> [lp |-> report.lotplan, fetch |-> report.fetches[i]]]

\* the build composed an archive in a temporary directory
WroteArchive(report) == report.status \in {"200", "write_error", "read_error"}

\* the logs after one build; call says which loop made it
BuildCalled(report, world, io, call) ==
    /\ upLog' = Append(upLog, [report |-> report, raises |-> world.raises])
    /\ fetchLog' = fetchLog \o FetchesOf(report)
    /\ ioLog' = IF WroteArchive(report) THEN Append(ioLog, [call |-> call, io |-> io])
                ELSE ioLog
    /\ tmpfs' = tmpfs \cup report.tmp_left

ErrorResponse(status) == [status |-> status, kind |-> "error"]

\* the parcels of the export runs: the samples, and one with each fetch raising
Worlds ==
    UpstreamSamples
    \cup { [EmptyWorld EXCEPT !.landtypes = <<ThematicFeature("in", "ok")>>,
                              !.raises = f, !.veg_configured = vc] :
             f \in FetchNames, vc \in BOOLEAN }

-----------------------------------------------------------------------------
(* SpecAssets: the icon assets of a merged export. Each parcel collects its *)
(* assets with assets.setdefault(icon_href, icon_bytes), the href and bytes *)
(* being whatever the icon table of app/bores.py gives; the loop of         *)
(* _create_bulk_kmz then adds them to kmz_assets where the name is new.     *)

IconHrefs ==
    { _icon_href_for_key(<<"A", ",", "B">>, "image/png"),
      _icon_href_for_key(<<"A", ",", "C">>, "image/jpeg") }

IconBytes == { <<"bytes", "ab">>, <<"bytes", "cd">> }

NoAssets == [assets |-> <<>>, offered |-> <<>>]

\* icons offered to one parcel: as many as parcels to one request
MaxIcons == MaxItems

InitAssets ==
    /\ kmz_assets = <<>> /\ reports = <<>>
    /\ boreOut = NoAssets /\ boreIn = Pending
    /\ payload = Pending /\ pc = "merged" /\ mode = "merged" /\ items = <<>> /\ idx = 1
    /\ upLog = <<>> /\ fetchLog = <<>> /\ ioLog = <<>> /\ nested_groups = <<>>
    /\ response = Pending /\ tmpfs = {}
    /\ NormIdle /\ BuildIdle

\* line 428: one icon of the parcel being built
AddIcon ==
    /\ Len(boreOut.offered) < MaxIcons
    /\ \E icon_href \in IconHrefs, icon_bytes \in IconBytes :
          boreOut' = [assets |-> setdefault(boreOut.assets, icon_href, icon_bytes),
                      offered |-> Append(boreOut.offered, <<icon_href, icon_bytes>>)]
    /\ UNCHANGED <<boreIn, normVars, buildVars, exportVars>>

\* lines 1864-1866: the assets of the parcel's report go to kmz_assets
MergeParcel ==
    /\ idx <= MaxItems
    /\ kmz_assets' = MergeAssets(kmz_assets, boreOut.assets)
    /\ reports' = Append(reports, [bore_assets |-> boreOut.assets])
    /\ idx' = idx + 1
    /\ boreOut' = NoAssets
    /\ UNCHANGED <<boreIn, normVars, buildVars, payload, pc, mode, items, upLog, fetchLog,
                   ioLog, nested_groups, response, tmpfs>>

NextAssets == AddIcon \/ MergeParcel

SpecAssets == InitAssets /\ [][NextAssets]_vars

-----------------------------------------------------------------------------
(* SpecInline: one call of _inline_point_icon_hrefs *)

\* a placemark by its name and icon reference
InlinePlacemarks ==
    { [name |-> <<"R", "1">>, icon_href |-> h] : h \in IconHrefs \cup {NoRecord} }

\* asset maps: each href absent or with bytes, no bytes (None) or empty bytes
InlineAssets ==
    LET pngHref == _icon_href_for_key(<<"A", ",", "B">>, "image/png")
        jpgHref == _icon_href_for_key(<<"A", ",", "C">>, "image/jpeg")
    IN  { a \o b :
            a \in { <<>> } \cup { <<<<pngHref, d>>>> : d \in IconBytes \cup {None, EmptyBytes} },
            b \in { <<>>, <<<<jpgHref, <<"bytes", "cd">>>>>> } }

InitInline ==
    /\ boreIn \in { [points |-> ps, assets |-> a] :
                      ps \in SeqsUpTo(InlinePlacemarks, MaxBores), a \in InlineAssets }
    /\ boreOut = Pending
    /\ NormIdle /\ BuildIdle /\ ExportIdle

InlineIcons ==
    /\ boreOut = Pending
    /\ boreOut' = [result |-> _inline_point_icon_hrefs(boreIn.points, boreIn.assets)]
    /\ UNCHANGED <<boreIn, normVars, buildVars, exportVars>>

NextInline == InlineIcons

SpecInline == InitInline /\ [][NextInline]_vars

-----------------------------------------------------------------------------
(* vector_geojson: GET /vector *)

\* the upstream fetches of /vector, in call order (lines 1379-1386)
VectorFetchOrder == <<"parcel", "landtypes", "bores", "easements", "water">>

\* lines 1397-1418: one feature per clipped land type, for the parcel lotplan
VectorLandtypes(clipped, lotplan) ==
    [i \in 1..Len(clipped) |->
        [code |-> clipped[i].code, name |-> clipped[i].name,
         area_ha |-> clipped[i].area_ha, lotplan |-> lotplan]]

\* lines 1422-1435 and 1579-1591: the bore passes the tests of the loop
\* body; seen holds the bore numbers taken before
VectorBoreKept(bore, seen) ==
    /\ bore.geom \notin {"invalid", "empty"}
    /\ _normalize_bore_properties(bore.properties) # NoRecord
    /\ _normalize_bore_properties(bore.properties).bore_number \notin seen

\* lines 1436-1443 and 1592-1598: the feature appended for a bore
VectorBoreFeature(bore, lotplan) ==
    [geometry |-> bore.geom,
     properties |-> _normalize_bore_properties(bore.properties) @@ [lotplan |-> lotplan]]

\* lines 1420-1443: the loop over the bores of the envelope; st is
\* (features, seen bore numbers)
RECURSIVE VectorBoreLoop(_, _, _)
VectorBoreLoop(st, bores, lotplan) ==
    IF bores = <<>> THEN st
    ELSE IF VectorBoreKept(Head(bores), st.seen)
    THEN VectorBoreLoop(
             [features |-> Append(st.features, VectorBoreFeature(Head(bores), lotplan)),
              seen |-> st.seen
                  \cup {_normalize_bore_properties(Head(bores).properties).bore_number}],
             Tail(bores), lotplan)
    ELSE VectorBoreLoop(st, Tail(bores), lotplan)

\* the geometry of an easement as _clip_to_parcel_union sees it
EasementGeom(easement) ==
    [is_empty |-> FALSE, where |-> IF easement.clip = "in" THEN "inside" ELSE "outside"]

\* lines 1447-1454: shp_shape succeeds and the clip leaves something
VectorEasementKept(easement) ==
    /\ easement.has_geometry
    /\ _clip_to_parcel_union(EasementGeom(easement), "area",
                             [op \in ClipOps |-> "ok"]).value # NoRecord

\* lines 1445-1463: the easement features of the answer
VectorEasements(easement_fc, lotplan) ==
    LET kept == SelectSeq(easement_fc, VectorEasementKept)
    IN  [i \in 1..Len(kept) |->
            [geometry |-> "clipped",
             properties |-> _normalize_easement_properties(kept[i].properties, lotplan)]]

\* lines 1465-1478: the water layers of the answer, features by number
VectorWaterLayers(water_layers) ==
    [i \in 1..Len(water_layers) |->
        [layer_id |-> water_layers[i].layer_id,
         layer_title |-> water_layers[i].layer_title,
         features |-> water_layers[i].features]]

RECURSIVE total_water_features(_)
total_water_features(water_layers_payload) ==
    IF water_layers_payload = <<>> THEN 0
    ELSE Head(water_layers_payload).features + total_water_features(Tail(water_layers_payload))

\* a test of the data found that leaves the easements out
has_data_NoEasements(features, bore_features, easement_features, water_total) ==
    features # <<>> \/ bore_features # <<>> \/ water_total # 0

\* line 1492
has_data(features, bore_features, easement_features, water_total) ==
    features # <<>> \/ bore_features # <<>> \/ easement_features # <<>> \/ water_total # 0

\* lines 1494-1503: the keys of the body the claims are about
VectorPayload(lotplan, features, bore_features, easement_features, water_layers_payload) ==
    [lotplan |-> lotplan,
     landtypes |-> [type |-> "FeatureCollection", features |-> features],
     bores |-> [type |-> "FeatureCollection", features |-> bore_features],
     easements |-> [type |-> "FeatureCollection", features |-> easement_features],
     water |-> [layers |-> water_layers_payload]]

\* lines 1492-1506: the status and the body, with the error field on 404
VectorResponse(found, body) ==
    [status |-> IF found THEN "200" ELSE "404",
     body |-> IF found THEN body
              ELSE body @@ [error |-> "No Land Types intersect this parcel."]]

\* lines 1378-1506 after the fetches
VectorAnswer(lotplan, world) ==
    VectorResponse(
        has_data(VectorLandtypes(prepare_clipped_shapes(world.landtypes), lotplan),
                 VectorBoreLoop([features |-> <<>>, seen |-> {}], world.bores, lotplan).features,
                 VectorEasements(world.easements, lotplan),
                 total_water_features(VectorWaterLayers(_prepare_water_layers(world.water)))),
        VectorPayload(lotplan,
                 VectorLandtypes(prepare_clipped_shapes(world.landtypes), lotplan),
                 VectorBoreLoop([features |-> <<>>, seen |-> {}], world.bores, lotplan).features,
                 VectorEasements(world.easements, lotplan),
                 VectorWaterLayers(_prepare_water_layers(world.water))))

\* vector_geojson(lotplan) against the upstream answers of world; a fetch
\* that raises leaves the handler (no try block, lines 1379-1386)
vector_geojson(lotplan, world) ==
    IF \E i \in 1..Len(VectorFetchOrder) : VectorFetchOrder[i] = world.raises
    THEN [status |-> "upstream_error", body |-> NoRecord]
    ELSE VectorAnswer(normalize_lotplan(lotplan), world)

\* the upstream answers of the /vector runs: every combination of the
\* answers /vector reads, and the samples with one fetch raising
VectorWorlds ==
    { World(TRUE, "none", lt, <<>>, eas, bores, water) :
        lt \in LandtypeLists, eas \in EasementLists, bores \in BoreLists,
        water \in WaterLists }
    \cup { [w EXCEPT !.raises = VectorFetchOrder[i]] :
             w \in UpstreamSamples, i \in 1..Len(VectorFetchOrder) }

InitVector ==
    /\ buildIn \in { [lotplan |-> lp, world |-> w] : lp \in {<<"a">>, <<"A">>}, w \in VectorWorlds }
    /\ buildOut = Pending
    /\ NormIdle /\ BoreIdle /\ ExportIdle

\* GET /vector
Vector ==
    /\ buildOut = Pending
    /\ buildOut' = vector_geojson(buildIn.lotplan, buildIn.world)
    /\ UNCHANGED <<buildIn, normVars, boreVars, exportVars>>

NextVector == Vector

SpecVector == InitVector /\ [][NextVector]_vars

-----------------------------------------------------------------------------
(* SpecTiff: one request to GET /export (export_geotiff). render is what    *)
(* make_geotiff_rgba does at out_path: it writes the file ("ok"), or raises *)
(* before creating it ("fail_before") or after ("fail_partial"); read is    *)
(* what open(out_path, "rb").read() does.                                   *)

\* app/raster.py make_geotiff_rgba: the paths after the call, and whether it raised
make_geotiff_rgba(fs, outcome) ==
    [ fs |-> IF outcome = "fail_before" THEN fs ELSE fs \cup {"file"},
      raised |-> outcome # "ok" ]

TiffRequests ==
    { [endpoint |-> "export", lotplan |-> lp, download |-> d, landtypes |-> lt,
       render |-> r, read |-> rd] :
        lp \in {<<"a">>, <<"A">>}, d \in BOOLEAN, lt \in LandtypeLists,
        r \in {"ok", "fail_before", "fail_partial"}, rd \in {"ok", "fail"} }

InitTiff ==
    /\ payload \in TiffRequests
    /\ pc = "start" /\ mode = "none" /\ items = <<>> /\ idx = 0
    /\ upLog = <<>> /\ fetchLog = <<>> /\ ioLog = <<>>
    /\ nested_groups = <<>> /\ kmz_assets = <<>> /\ reports = <<>>
    /\ response = Pending /\ tmpfs = {}
    /\ NormIdle /\ BoreIdle /\ BuildIdle

\* lines 1345-1355: the clip, the 404 of a parcel without land types
\* (raised or returned as JSON), or tempfile.mkdtemp
TiffClip ==
    /\ pc = "start"
    /\ IF prepare_clipped_shapes(payload.landtypes) = <<>>
       THEN /\ response' = [status |-> "404",
                            kind |-> IF payload.download THEN "error" ELSE "json"]
            /\ pc' = "done"
            /\ tmpfs' = tmpfs
       ELSE /\ tmpfs' = tmpfs \cup {"dir"}
            /\ pc' = "render"
            /\ response' = response
    /\ UNCHANGED <<payload, mode, items, idx, upLog, fetchLog, ioLog, nested_groups,
                   kmz_assets, reports, normVars, boreVars, buildVars>>

\* line 1356: make_geotiff_rgba(clipped, out_path, max_px=max_px); what it
\* raises leaves the handler
TiffRender ==
    /\ pc = "render"
    /\ tmpfs' = make_geotiff_rgba(tmpfs, payload.render).fs
    /\ IF make_geotiff_rgba(tmpfs, payload.render).raised
       THEN response' = [status |-> "render_error", kind |-> "error"] /\ pc' = "done"
       ELSE response' = response /\ pc' = "respond"
    /\ UNCHANGED <<payload, mode, items, idx, upLog, fetchLog, ioLog, nested_groups,
                   kmz_assets, reports, normVars, boreVars, buildVars>>

\* lines 1357-1364: read the file, os.remove(out_path), os.rmdir(tmpdir),
\* and stream the bytes; a read that raises leaves the handler
TiffDownload ==
    /\ pc = "respond" /\ payload.download
    /\ IF payload.read = "ok"
       THEN /\ tmpfs' = (tmpfs \ {"file"}) \ {"dir"}
            /\ response' = [status |-> "200", kind |-> "tiff"]
       ELSE /\ tmpfs' = tmpfs
            /\ response' = [status |-> "read_error", kind |-> "error"]
    /\ pc' = "done"
    /\ UNCHANGED <<payload, mode, items, idx, upLog, fetchLog, ioLog, nested_groups,
                   kmz_assets, reports, normVars, boreVars, buildVars>>

\* lines 1365-1372: the JSON summary, the legend and the result without its path
TiffSummary ==
    /\ pc = "respond" /\ ~payload.download
    /\ response' = [status |-> "200", kind |-> "json"]
    /\ pc' = "done"
    /\ UNCHANGED <<payload, mode, items, idx, upLog, fetchLog, ioLog, nested_groups,
                   kmz_assets, reports, tmpfs, normVars, boreVars, buildVars>>

NextTiff == TiffClip \/ TiffRender \/ TiffDownload \/ TiffSummary

SpecTiff == InitTiff /\ [][NextTiff]_vars

-----------------------------------------------------------------------------
(* SpecVectorBulk: one request to POST /vector/bulk. payload.upstream maps  *)
(* a normalized identifier to the upstream answers for its parcel. boreOut  *)
(* holds bore_features and seen_bore_numbers, buildOut the other lists.     *)

\* lines 1515-1525: stripped, blanks dropped, normalized, first occurrence kept
RECURSIVE BulkLotplans(_, _)
BulkLotplans(raws, kept) ==
    IF raws = <<>> THEN kept
    ELSE IF strip(Head(raws)) = <<>> \/ normalize_lotplan(strip(Head(raws))) \in Range(kept)
    THEN BulkLotplans(Tail(raws), kept)
    ELSE BulkLotplans(Tail(raws), Append(kept, normalize_lotplan(strip(Head(raws)))))

\* lines 1621-1633: water_layers_map.setdefault(layer_id, entry) and
\* entry["features"].extend(features_list), for a layer that has features
WaterMapAdd(water_layers_map, layer, lotplan) ==
    IF layer.features = 0 THEN water_layers_map
    ELSE IF \E i \in 1..Len(water_layers_map) : water_layers_map[i].layer_id = layer.layer_id
    THEN [i \in 1..Len(water_layers_map) |->
             IF water_layers_map[i].layer_id = layer.layer_id
             THEN [water_layers_map[i] EXCEPT
                      !.features = Append(@, [lotplan |-> lotplan, count |-> layer.features])]
             ELSE water_layers_map[i]]
    ELSE Append(water_layers_map,
                [layer_id |-> layer.layer_id, layer_title |-> layer.layer_title,
                 features |-> <<[lotplan |-> lotplan, count |-> layer.features]>>])

RECURSIVE WaterMapAddAll(_, _, _)
WaterMapAddAll(water_layers_map, layers, lotplan) ==
    IF layers = <<>> THEN water_layers_map
    ELSE WaterMapAddAll(WaterMapAdd(water_layers_map, Head(layers), lotplan),
                        Tail(layers), lotplan)

\* line 1685: sorted(water_layers_map.items())
RECURSIVE SortedLayers(_)
SortedLayers(entries) ==
    IF entries = {} THEN <<>>
    ELSE LET first == CHOOSE e \in entries : \A o \in entries : e.layer_id <= o.layer_id
         IN  <<first>> \o SortedLayers(entries \ {first})

BulkUpstream ==
    UpstreamSamples
    \cup { [EmptyWorld EXCEPT !.landtypes = <<ThematicFeature("in", "ok")>>,
                              !.raises = "bores"] }

BulkIdentifiers == { normalize_lotplan(lp) : lp \in RawLotplans } \ {<<>>}

BulkRequests ==
    { [endpoint |-> "vector_bulk", lotplans |-> lps, upstream |-> up] :
        lps \in SeqsUpTo(RawLotplans, MaxItems) \ {<<>>},
        up \in [BulkIdentifiers -> BulkUpstream] }

InitVectorBulk ==
    /\ payload \in BulkRequests
    /\ pc = "start" /\ mode = "none" /\ items = <<>> /\ idx = 0
    /\ upLog = <<>> /\ fetchLog = <<>> /\ ioLog = <<>>
    /\ nested_groups = <<>> /\ kmz_assets = <<>> /\ reports = <<>>
    /\ response = Pending /\ tmpfs = {}
    /\ boreIn = Pending /\ buildIn = Pending
    /\ boreOut = [features |-> <<>>, seen |-> {}]
    /\ buildOut = [parcels |-> <<>>, landtypes |-> <<>>, easements |-> <<>>, water |-> <<>>]
    /\ NormIdle

\* lines 1515-1537: the list of identifiers, the 400 of an empty list
VectorBulkStart ==
    /\ pc = "start" /\ payload # Pending /\ payload.endpoint = "vector_bulk"
    /\ items' = BulkLotplans(payload.lotplans, <<>>)
    /\ IF BulkLotplans(payload.lotplans, <<>>) = <<>>
       THEN response' = ErrorResponse("400") /\ pc' = "done" /\ idx' = 0
       ELSE response' = response /\ pc' = "bulk" /\ idx' = 1
    /\ UNCHANGED <<payload, mode, upLog, fetchLog, ioLog, nested_groups, kmz_assets,
                   reports, tmpfs, normVars, boreVars, buildVars>>

\* lines 1551-1667: one pass of the loop over the identifiers; a fetch that
\* raises leaves the handler
VectorBulkStep ==
    /\ pc = "bulk" /\ idx <= Len(items)
    /\ LET lotplan == items[idx]
           world == payload.upstream[items[idx]]
       IN  IF \E i \in 1..Len(VectorFetchOrder) : VectorFetchOrder[i] = world.raises
           THEN /\ response' = ErrorResponse("upstream_error")
                /\ pc' = "done"
                /\ UNCHANGED <<idx, boreOut, buildOut>>
           ELSE /\ boreOut' = VectorBoreLoop(boreOut, world.bores, lotplan)
                /\ buildOut' =
                     [parcels |-> Append(buildOut.parcels, [lotplan |-> lotplan]),
                      landtypes |-> buildOut.landtypes
                          \o VectorLandtypes(prepare_clipped_shapes(world.landtypes), lotplan),
                      easements |-> buildOut.easements
                          \o VectorEasements(world.easements, lotplan),
                      water |-> WaterMapAddAll(buildOut.water,
                                    _prepare_water_layers(world.water), lotplan)]
                /\ idx' = idx + 1
                /\ UNCHANGED <<pc, response>>
    /\ UNCHANGED <<payload, mode, items, upLog, fetchLog, ioLog, nested_groups, kmz_assets,
                   reports, tmpfs, normVars, boreIn, buildIn>>

\* lines 1669-1704: the 404 of a request that found nothing, or the body
VectorBulkFinish ==
    /\ pc = "bulk" /\ idx > Len(items)
    /\ response' =
          IF /\ buildOut.parcels = <<>> /\ buildOut.landtypes = <<>>
             /\ boreOut.features = <<>> /\ buildOut.easements = <<>>
             /\ buildOut.water = <<>>
          THEN ErrorResponse("404")
          ELSE [status |-> "200", kind |-> "json",
                lotplans |-> items,
                parcels |-> buildOut.parcels,
                landtypes |-> buildOut.landtypes,
                bores |-> boreOut.features,
                easements |-> buildOut.easements,
                water |-> SortedLayers(Range(buildOut.water))]
    /\ pc' = "done"
    /\ UNCHANGED <<payload, mode, items, idx, upLog, fetchLog, ioLog, nested_groups,
                   kmz_assets, reports, tmpfs, normVars, boreVars, buildVars>>

NextVectorBulk == VectorBulkStart \/ VectorBulkStep \/ VectorBulkFinish

SpecVectorBulk == InitVectorBulk /\ [][NextVectorBulk]_vars

-----------------------------------------------------------------------------
(* Spec: one request to /export_kmz or /export/any *)

\* the lotplans field absent or empty is <<>> (the code tests its truth only)
Payloads ==
    { [endpoint |-> "export_kmz", lotplan |-> lp, lotplans |-> <<>>,
       filename_prefix |-> None, simplify_tolerance |-> t] :
        lp \in RawLotplans, t \in {0, 1} }
    \cup { [endpoint |-> "export_any", lotplan |-> lp, lotplans |-> lps,
            filename_prefix |-> fp, simplify_tolerance |-> t] :
             lp \in {None, <<" ">>, <<"a">>, <<"c">>},
             lps \in SeqsUpTo(RawLotplans, MaxItems),
             fp \in {None, <<"p", "/">>}, t \in {0, 1} }

Init ==
    /\ payload \in Payloads
    /\ pc = "start" /\ mode = "none" /\ items = <<>> /\ idx = 0
    /\ upLog = <<>> /\ fetchLog = <<>> /\ ioLog = <<>>
    /\ nested_groups = <<>> /\ kmz_assets = <<>> /\ reports = <<>>
    /\ response = Pending /\ tmpfs = {}
    /\ NormIdle /\ BoreIdle /\ BuildIdle

\* str.isalnum over the characters of the sample texts
isalnum(c) ==
    c \in { "a", "b", "c", "d", "e", "g", "j", "k", "l", "m", "n", "o", "p", "t", "w", "x", "z",
            "A", "B", "C", "E", "G", "J", "N", "P",
            "0", "1", "2", "3", "4", "5", "6", "7", "8", "9" }

\* line 93: the characters a file name keeps
FilenameChar(c) == isalnum(c) \/ c \in { "_", "-", ".", " " }

\* lines 92-94: _sanitize_filename(s)
_sanitize_filename(s) ==
    LET base == SelectSeq(strip(IF Truthy(s) THEN s ELSE <<>>), FilenameChar)
    IN  strip(IF base = <<>> THEN <<"d", "o", "w", "n", "l", "o", "a", "d">> ELSE base)

\* line 890: the file name of a report; the dash of the source is an en dash
ReportFilename(lotplan) == <<"Property Report - ">> \o lotplan \o <<".kmz">>

\* clean.lower().endswith(".kmz")
EndsWithKmz(clean) ==
    /\ Len(clean) >= 4
    /\ lower(SubSeq(clean, Len(clean) - 3, Len(clean))) = <<".", "k", "m", "z">>

\* an entry name that leaves the parcel out
_prefixed_report_filename_NoLotplan(lotplan, prefix) ==
    IF ~Truthy(prefix) THEN <<"Property Report.kmz">> ELSE _sanitize_filename(prefix)

\* lines 1799-1808: _prefixed_report_filename(lotplan, prefix)
_prefixed_report_filename(lotplan, prefix) ==
    IF ~Truthy(prefix) THEN ReportFilename(lotplan)
    ELSE IF _sanitize_filename(prefix) = <<>> THEN ReportFilename(lotplan)
    ELSE IF EndsWithKmz(_sanitize_filename(prefix))
    THEN SubSeq(_sanitize_filename(prefix), 1, Len(_sanitize_filename(prefix)) - 4)
             \o <<" - ">> \o ReportFilename(lotplan)
    ELSE _sanitize_filename(prefix) \o <<" - ">> \o ReportFilename(lotplan)

\* lines 891-917: report.kmz_bytes, the archive of the document of the
\* report and of its own icon assets
kmz_bytes(report) == [document |-> report.top_level_groups, assets |-> report.bore_assets]

\* line 1930: prefix_clean
PrefixClean(filename_prefix) ==
    IF Truthy(filename_prefix) THEN _sanitize_filename(filename_prefix) ELSE None

\* lines 1936-1940: the entry written for one report
ZipEntry(report, prefix_clean) ==
    [ name |-> IF Truthy(prefix_clean)
               THEN _prefixed_report_filename(report.lotplan, prefix_clean)
               ELSE ReportFilename(report.lotplan),
      bytes |-> kmz_bytes(report) ]

\* the response of an export of one parcel: the archive of the report, or
\* the error the build raised (lines 1714-1727, 1974-1988)
SingleReport(report, world, io) ==
    /\ BuildCalled(report, world, io, "build")
    /\ response' = IF Raises(report) THEN ErrorResponse(report.status)
                    ELSE [status |-> "200", kind |-> "kmz",
                          document |-> report.top_level_groups]

\* the report of one pass of the zip loop, kept or raised
ZipReport(report, world, io) ==
    /\ BuildCalled(report, world, io, "build")
    /\ IF Raises(report)
       THEN /\ response' = ErrorResponse(report.status)
            /\ pc' = "done"
            /\ UNCHANGED <<idx, reports>>
       ELSE /\ reports' = Append(reports, report)
            /\ idx' = idx + 1
            /\ UNCHANGED <<pc, response>>

\* the report of one pass of the merge loop, merged or raised
BulkReport(report, world, io) ==
    /\ BuildCalled(report, world, io, "build")
    /\ IF Raises(report)
       THEN /\ response' = ErrorResponse(report.status)
            /\ pc' = "done"
            /\ UNCHANGED <<idx, nested_groups, kmz_assets>>
       ELSE /\ nested_groups' = Append(nested_groups,
                    [lotplan |-> report.lotplan, subgroups |-> Subgroups(report)])
            /\ kmz_assets' = MergeAssets(kmz_assets, report.bore_assets)
            /\ idx' = idx + 1
            /\ UNCHANGED <<pc, response>>

\* GET /export_kmz (lines 1705-1727)
ExportKmz ==
    /\ pc = "start" /\ payload.endpoint = "export_kmz"
    /\ \E world \in Worlds, io \in IoOutcomes :
          SingleReport(build_property_report_kmz(payload.lotplan,
                           payload.simplify_tolerance, world, io), world, io)
    /\ pc' = "done" /\ mode' = "single"
    /\ UNCHANGED <<payload, items, idx, nested_groups, kmz_assets, reports,
                   normVars, boreVars, buildVars>>

\* POST /export/any up to the choice of the export (lines 1952-1973, 1990)
ExportAny ==
    /\ pc = "start" /\ payload.endpoint = "export_any"
    /\ LET work == WorkItems(payload)
       IN  /\ items' = work
           /\ IF NoItems(work)
              THEN /\ response' = ErrorResponse("400")
                   /\ pc' = "done" /\ mode' = "none" /\ idx' = 0
              ELSE /\ response' = response
                   /\ mode' = ModeOf(payload, work)
                   /\ pc' = ModeOf(payload, work) /\ idx' = 1
    /\ UNCHANGED <<payload, upLog, fetchLog, ioLog, nested_groups, kmz_assets, reports,
                   tmpfs, normVars, boreVars, buildVars>>

\* export_any with one identifier (lines 1973-1988)
SingleBuild ==
    /\ pc = "single"
    /\ \E world \in Worlds, io \in IoOutcomes :
          SingleReport(build_property_report_kmz(items[1],
                           payload.simplify_tolerance, world, io), world, io)
    /\ pc' = "done"
    /\ UNCHANGED <<payload, mode, items, idx, nested_groups, kmz_assets, reports,
                   normVars, boreVars, buildVars>>

\* one pass of the loop of _create_property_report_zip (lines 1918-1927)
ZipStep ==
    /\ pc = "zip" /\ idx <= Len(items)
    /\ \E world \in Worlds, io \in IoOutcomes :
          ZipReport(build_property_report_kmz(items[idx],
                        payload.simplify_tolerance, world, io), world, io)
    /\ UNCHANGED <<payload, mode, items, nested_groups, kmz_assets,
                   normVars, boreVars, buildVars>>

\* the archive of _create_property_report_zip (lines 1929-1948)
ZipFinish ==
    /\ pc = "zip" /\ idx > Len(items)
    /\ response' = [status |-> "200", kind |-> "zip",
                    entries |-> [i \in 1..Len(reports) |->
                                   ZipEntry(reports[i], PrefixClean(payload.filename_prefix))]]
    /\ pc' = "done"
    /\ UNCHANGED <<payload, mode, items, idx, upLog, fetchLog, ioLog, nested_groups,
                   kmz_assets, reports, tmpfs, normVars, boreVars, buildVars>>

\* one pass of the loop of _create_bulk_kmz (lines 1824-1866)
BulkStep ==
    /\ pc = "merged" /\ idx <= Len(items)
    /\ \E world \in Worlds, io \in IoOutcomes :
          BulkReport(build_property_report_kmz(items[idx],
                         payload.simplify_tolerance, world, io), world, io)
    /\ UNCHANGED <<payload, mode, items, reports, normVars, boreVars, buildVars>>

\* _create_bulk_kmz after the loop (lines 1868-1904)
BulkFinish ==
    /\ pc = "merged" /\ idx > Len(items)
    /\ IF nested_groups = <<>>
       THEN /\ response' = ErrorResponse("404")
            /\ UNCHANGED <<ioLog, tmpfs>>
       ELSE \E io \in IoOutcomes :
              LET written == WriteKmzTemp(io)
              IN  /\ ioLog' = Append(ioLog, [call |-> "bulk", io |-> io])
                  /\ tmpfs' = tmpfs \cup written.left
                  /\ response' = IF written.error # "none"
                                  THEN ErrorResponse(written.error)
                                  ELSE [status |-> "200", kind |-> "kmz",
                                        document |-> nested_groups,
                                        assets |-> kmz_assets]
    /\ pc' = "done"
    /\ UNCHANGED <<payload, mode, items, idx, upLog, fetchLog, nested_groups,
                   kmz_assets, reports, normVars, boreVars, buildVars>>

Next ==
    \/ ExportKmz
    \/ ExportAny
    \/ SingleBuild
    \/ ZipStep
    \/ ZipFinish
    \/ BulkStep
    \/ BulkFinish

Spec == Init /\ [][Next]_vars

-----------------------------------------------------------------------------
(* Claims about the normalizers, under SpecNorm *)

\* missing, empty or whitespace-only
IsBlank(v) == v = None \/ strip(v) = <<>>

BoreCallDone == normIn # Pending /\ normIn.kind = "bore" /\ normOut # Pending
EasementCallDone == normIn # Pending /\ normIn.kind = "easement" /\ normOut # Pending

\* C7: when every alias of the bore number is missing or blank,
\* _normalize_bore_properties returns None; a returned record never has an
\* empty bore_number.
C7_BoreNumberRequired ==
    BoreCallDone =>
        /\ (\A i \in 1..Len(BoreNumberAliases) : IsBlank(normIn.props[BoreNumberAliases[i]]))
               => normOut = NoRecord
        /\ normOut # NoRecord =>
               normOut.bore_number # None /\ normOut.bore_number # <<>>

\* a call whose only bore-number alias is whitespace, answered with None
C7_Witness ==
    /\ BoreCallDone
    /\ normIn.props["rn"] = <<" ">>
    /\ \A i \in 1..Len(BoreNumberAliases) : IsBlank(normIn.props[BoreNumberAliases[i]])
    /\ normOut = NoRecord

\* the trimmed value of the first alias that is not blank, None when all are
RECURSIVE FirstNonBlank(_, _)
FirstNonBlank(props, aliases) ==
    IF aliases = <<>> THEN None
    ELSE IF ~IsBlank(props[aliases[1]]) THEN strip(props[aliases[1]])
    ELSE FirstNonBlank(props, Tail(aliases))

\* C9: each output field of the bore and easement normalizers is the value of
\* the first alias, in listed order, that is non-empty after trimming; a blank
\* earlier alias does not hide a later alias that has a value.
C9_FirstNonBlankAliasWins ==
    /\ (BoreCallDone /\ normOut # NoRecord) =>
          /\ normOut.status = FirstNonBlank(normIn.props, BoreStatusAliases)
          /\ normOut.type = FirstNonBlank(normIn.props, BoreTypeAliases)
          /\ normOut.report_url = FirstNonBlank(normIn.props, BoreReportUrlAliases)
    /\ EasementCallDone =>
          /\ normOut.parcel_type = FirstNonBlank(normIn.props, EasementParcelTypeAliases)
          /\ normOut.tenure = FirstNonBlank(normIn.props, EasementTenureAliases)

\* absent, or a trimmed non-empty text
AbsentOrTrimmed(v) == v = None \/ v = Missing \/ (v # <<>> /\ strip(v) = v)

\* C10: every text field of a normalized bore record (status, status_label,
\* type, type_label, report_url, icon_key) and easement record (parcel_type,
\* name, tenure, alias) is absent or a trimmed non-empty string.
C10_TextFieldsAbsentOrTrimmed ==
    /\ (BoreCallDone /\ normOut # NoRecord) =>
          /\ AbsentOrTrimmed(normOut.status)
          /\ AbsentOrTrimmed(normOut.status_label)
          /\ AbsentOrTrimmed(normOut.type)
          /\ AbsentOrTrimmed(normOut.type_label)
          /\ AbsentOrTrimmed(normOut.report_url)
          /\ AbsentOrTrimmed(normOut.icon_key)
    /\ EasementCallDone =>
          /\ AbsentOrTrimmed(normOut.parcel_type)
          /\ AbsentOrTrimmed(normOut.name)
          /\ AbsentOrTrimmed(normOut.tenure)
          /\ AbsentOrTrimmed(normOut.alias)

-----------------------------------------------------------------------------
(* Claims about _prepare_bore_placemarks, under SpecBores *)

BoresDone == boreIn # Pending /\ boreOut # Pending

\* the normalized number of a raw bore feature
NumberOf(feature) == normalize_bore_number(GetFirst(feature.properties, BoreNumberAliases))

\* the feature is a point that the parcel test lets through, with a number
Passes(feature) ==
    /\ feature.geom \in {"in", "out", "unknown"}
    /\ boreIn.parcel_geom # None => feature.geom # "out"
    /\ Truthy(NumberOf(feature))

\* C8: _prepare_bore_placemarks emits at most one placemark per normalized
\* bore number, built from the first feature in input order that passed the
\* geometry and parcel filters; numbers that differ only in case or
\* whitespace are the same number.
C8_OnePlacemarkPerBoreFirstWins ==
    BoresDone =>
        LET pms == boreOut.placemarks
            fc == boreIn.bore_fc
        IN  /\ \A i, j \in 1..Len(pms) : pms[i].name = pms[j].name => i = j
            /\ \A i \in 1..Len(pms) :
                  /\ pms[i].lon \in 1..Len(fc)
                  /\ Passes(fc[pms[i].lon])
                  /\ NumberOf(fc[pms[i].lon]) = pms[i].name
                  /\ \A k \in 1..(pms[i].lon - 1) :
                        Passes(fc[k]) => NumberOf(fc[k]) # pms[i].name
            /\ \A k \in 1..Len(fc) :
                  Passes(fc[k]) => \E i \in 1..Len(pms) : pms[i].name = NumberOf(fc[k])

\* "R1" then "r 1 " inside the parcel: one placemark, from the first
C8_Witness ==
    /\ BoresDone
    /\ Len(boreIn.bore_fc) >= 2
    /\ boreIn.bore_fc[1].geom = "in" /\ boreIn.bore_fc[2].geom = "in"
    /\ boreIn.bore_fc[1].properties["rn"] = <<"R", "1">>
    /\ boreIn.bore_fc[2].properties["bore_number"] = <<"r", " ", "1", " ">>
    /\ Len(boreOut.placemarks) = 1
    /\ boreOut.placemarks[1].name = <<"R", "1">>
    /\ boreOut.placemarks[1].lon = 1

-----------------------------------------------------------------------------
(* Claims about build_property_report_kmz, under SpecBuild *)

BuildDone == buildIn # Pending /\ buildOut # Pending

\* the call got as far as the not-found test
BuildAnswered == BuildDone /\ buildOut.status \notin {"400", "upstream_error"}

\* no water bundle of the report has a shape, a point or a feature
NoWaterContent(report) ==
    \A i \in 1..Len(report.water_layers) :
        /\ report.water_layers[i].shapes = 0
        /\ report.water_layers[i].points = 0
        /\ report.water_layers[i].features = 0

\* nothing of the parcel's upstream answers is left by the clip
AllEmptyAfterClipping(world, report) ==
    /\ \A i \in 1..Len(world.landtypes) : world.landtypes[i].clip # "in"
    /\ world.veg_configured => \A i \in 1..Len(world.vegetation) : world.vegetation[i].clip # "in"
    /\ \A i \in 1..Len(world.easements) :
          ~(world.easements[i].has_geometry /\ world.easements[i].clip = "in")
    /\ report.bore_points = <<>>
    /\ NoWaterContent(report)

\* the categories of the report are all empty
ReportEmpty(report) ==
    /\ report.landtypes = <<>> /\ report.vegetation = <<>> /\ report.easements = <<>>
    /\ report.bore_points = <<>>
    /\ NoWaterContent(report)

\* C3: build_property_report_kmz raises 404 exactly when land types,
\* vegetation, easements and bore points are all empty after clipping and no
\* water bundle has a shape, point or feature; otherwise (the archive being
\* written and read without error) it returns a report, and a returned
\* report never has all categories empty.
C3_NotFoundIffAllEmpty ==
    BuildAnswered =>
        /\ buildOut.status = "404" <=> AllEmptyAfterClipping(buildIn.world, buildOut)
        /\ (~AllEmptyAfterClipping(buildIn.world, buildOut) /\ buildIn.io = IoOk)
               => buildOut.status = "200"
        /\ buildOut.status = "200" => ~ReportEmpty(buildOut)

\* a land type and a bore that miss the parcel and a water geometry that does
\* not serialize: a bundle comes back, with nothing in it, and the call raises 404
C3_Witness ==
    /\ BuildDone
    /\ buildOut.status = "404"
    /\ Len(buildOut.water_layers) = 1
    /\ buildIn.world.bores # <<>>
    /\ buildIn.world.landtypes # <<>>

-----------------------------------------------------------------------------
(* Claims about the exports, under Spec *)

Done == pc = "done"

\* the request went to one of the two bulk exports
Bulk == mode \in {"zip", "merged"}

\* the report of the i-th build of the request
ReportOf(i) == upLog[i].report

\* the identifiers whose build returned a report, in the order built
RECURSIVE LotplansFound(_)
LotplansFound(log) ==
    IF log = <<>> THEN <<>>
    ELSE (IF Head(log).report.status = "200" THEN <<Head(log).report.lotplan>> ELSE <<>>)
         \o LotplansFound(Tail(log))

\* C1: in the merged bulk export, when every identifier fetched answered,
\* at least one with features and the others with nothing, and the archive
\* is written without error, the export succeeds with exactly one
\* parcel-named top-level folder per non-empty identifier.
C1_PartialSuccessAllowed ==
    ( /\ Done /\ mode = "merged"
      /\ \E i \in 1..Len(upLog) : ReportOf(i).status = "200"
      /\ \A i \in 1..Len(upLog) : ReportOf(i).status \in {"200", "404"}
      /\ response.status \notin {"write_error", "read_error"} )
    => /\ response.status = "200"
       /\ [i \in 1..Len(response.document) |-> response.document[i].lotplan]
              = LotplansFound(upLog)

\* C2: in both bulk exports, when every identifier fetched answered and
\* none has a feature in any category, the request ends with 404 and no
\* document or archive.
C2_AllEmptyNotFound ==
    ( /\ Done /\ Bulk /\ upLog # <<>>
      /\ \A i \in 1..Len(upLog) :
            ReportOf(i).status # "upstream_error" /\ ReportEmpty(ReportOf(i)) )
    => response = ErrorResponse("404")

\* a zip export of two parcels, the first with no more than an unusable
\* water geometry
C2_Witness ==
    /\ Done /\ mode = "zip" /\ Len(items) = 2
    /\ Len(upLog) = 1 /\ ReportOf(1).water_layers # <<>> /\ ReportEmpty(ReportOf(1))
    /\ response.status = "404"

\* C4: in a bulk export, when an upstream fetch for the k-th identifier
\* raises, the caller gets that error and no document, the failing fetch was
\* issued once, it is the last fetch of the request, and no fetch nor build
\* was made for a later identifier.
C4_UpstreamFailureAborts ==
    \A k \in 1..Len(upLog) :
        (Bulk /\ ReportOf(k).status = "upstream_error") =>
            LET failing == [lp |-> items[k], fetch |-> upLog[k].raises]
            IN  /\ k = Len(upLog)
                /\ Done /\ response = ErrorResponse("upstream_error")
                /\ fetchLog # <<>> /\ fetchLog[Len(fetchLog)] = failing
                /\ Cardinality({ i \in 1..Len(fetchLog) : fetchLog[i] = failing }) = 1
                /\ \A i \in 1..Len(fetchLog) : \E j \in 1..k : fetchLog[i].lp = items[j]

\* three parcels to merge; the water fetch of the second raises
C4_Witness ==
    /\ Done /\ mode = "merged" /\ Len(items) = 3
    /\ Len(upLog) = 2 /\ ReportOf(2).status = "upstream_error" /\ upLog[2].raises = "water"
    /\ response.status = "upstream_error"

\* writing or reading the archive raised
IoFailed(io) == io.write # "ok" \/ io.read # "ok"

\* the error that writing, else reading, raised
IoError(io) == IF io.write # "ok" THEN "write_error" ELSE "read_error"

AllBlank(request) ==
    /\ ~Truthy(normalize_lotplan(request.lotplan))
    /\ \A i \in 1..Len(request.lotplans) : ~Truthy(normalize_lotplan(request.lotplans[i]))

\* C6: a blank identifier is a 400 before any fetch: from
\* build_property_report_kmz (reached with the raw identifier through
\* /export_kmz) when normalize_lotplan returns an empty value, and from
\* export_any when no supplied identifier normalizes to a non-empty value.
C6_BlankIdentifierRejected ==
    /\ (pc # "start" /\ payload.endpoint = "export_kmz"
           /\ ~Truthy(normalize_lotplan(payload.lotplan)))
          => /\ response = ErrorResponse("400") /\ fetchLog = <<>>
             /\ Len(upLog) = 1 /\ ReportOf(1).status = "400"
    /\ (pc # "start" /\ payload.endpoint = "export_any" /\ AllBlank(payload))
          => /\ Done /\ response = ErrorResponse("400")
             /\ fetchLog = <<>> /\ upLog = <<>>

\* /export/any with a blank lotplan and two blank lotplans
C6_Witness ==
    /\ Done /\ payload.endpoint = "export_any"
    /\ payload.lotplan = <<" ">> /\ Len(payload.lotplans) = 2
    /\ response.status = "400" /\ fetchLog = <<>>

-----------------------------------------------------------------------------
(* Claims about _safe_float, under SpecFloat *)

FloatCallDone == normIn # Pending /\ normIn.kind = "float" /\ normOut # Pending

\* the value is a text (not None, not a number)
IsText(v) == v # None /\ ~IsNum(v)

\* a trimmed text of digits and thousands separators with a digit in it
IsNumericText(text) ==
    /\ \A i \in 1..Len(text) : text[i] \in Digits \cup {","}
    /\ \E i \in 1..Len(text) : text[i] \in Digits

\* C11: _safe_float never raises; None, blank text and non-numeric text give
\* None; numeric text with thousands separators gives the number with the
\* commas removed; an int or float is returned as a float.
C11_SafeFloatNeverRaises ==
    FloatCallDone =>
        LET value == normIn.value
            result == normOut.result
        IN  /\ ~IsRaised(result)
            /\ value = None => result = None
            /\ (IsText(value) /\ ~IsNumericText(strip(value))) => result = None
            /\ (IsText(value) /\ IsNumericText(strip(value)))
                  => result = Num(DecimalValue(remove_commas(strip(value))))
            /\ IsNum(value) => result = value

-----------------------------------------------------------------------------
(* Claims about _clip_to_parcel_union, under SpecClip *)

ClipCallDone == normIn.kind = "clip" /\ normOut # Pending

ClipReturned == ClipCallDone /\ normOut.value # NoRecord

\* the statement of C12 as written: against a non-empty union a candidate
\* fully outside gives nothing and every returned shape intersects the union;
\* without a union a non-empty candidate comes back unchanged; an empty
\* candidate gives nothing
C12_EveryReturnedShapeIntersects ==
    ClipCallDone =>
        /\ normIn.geom.is_empty => normOut.value = NoRecord
        /\ (~normIn.geom.is_empty /\ normIn.parcel_union # "area") =>
              normOut.value = [via |-> "unclipped", is_empty |-> FALSE,
                               where |-> normIn.geom.where]
        /\ (~normIn.geom.is_empty /\ normIn.parcel_union = "area"
              /\ normIn.geom.where = "outside") => normOut.value = NoRecord
        /\ (ClipReturned /\ normIn.parcel_union = "area") =>
              normOut.value.where # "outside"

\* C12, amended: the same, except that the original candidate returned after
\* the intersects test and all three intersections failed may lie outside the
\* union
C12_ClippedShapeIntersectsUnlessFallback ==
    ClipCallDone =>
        /\ normIn.geom.is_empty => normOut.value = NoRecord
        /\ (~normIn.geom.is_empty /\ normIn.parcel_union # "area") =>
              normOut.value = [via |-> "unclipped", is_empty |-> FALSE,
                               where |-> normIn.geom.where]
        /\ (~normIn.geom.is_empty /\ normIn.parcel_union = "area"
              /\ normIn.geom.where = "outside"
              /\ \E op \in ClipOps : normIn.ops[op] = "ok") =>
              normOut.value = NoRecord
        /\ (ClipReturned /\ normIn.parcel_union = "area") =>
              \/ normOut.value.where # "outside" /\ ~normOut.value.is_empty
              \/ /\ normOut.value = [via |-> "original", is_empty |-> FALSE,
                                     where |-> normIn.geom.where]
                 /\ \A op \in ClipOps : normIn.ops[op] = "raises"

\* a candidate outside a non-empty union whose intersects test failed and
\* whose plain intersection came back empty: nothing is returned
C12_Witness ==
    /\ ClipCallDone
    /\ ~normIn.geom.is_empty /\ normIn.parcel_union = "area"
    /\ normIn.geom.where = "outside"
    /\ normIn.ops["intersects"] = "raises" /\ normIn.ops["plain"] = "ok"
    /\ normOut.value = NoRecord

ClipOrder == <<"intersects", "plain", "repaired", "both", "original">>

\* C13: the recovery goes plain intersection, repaired candidate, both
\* repaired, original candidate, each tried only after the one before it
\* failed and none after one that succeeded; the call always returns a shape
\* or nothing, also when the intersects test itself failed
C13_RecoveryInOrder ==
    ClipCallDone =>
        LET tried == normOut.tried IN
        /\ Len(tried) <= Len(ClipOrder)
        /\ \A i \in 1..Len(tried) : tried[i] = ClipOrder[i]
        /\ \A i \in 2..(Len(tried) - 1) : normIn.ops[tried[i]] = "raises"
        /\ Len(tried) >= 2 =>
              \/ tried[Len(tried)] = "original"
              \/ normIn.ops[tried[Len(tried)]] = "ok"
        /\ \/ normOut.value = NoRecord
           \/ normOut.value.via \in {"unclipped", "plain", "repaired", "both", "original"}
        /\ (ClipReturned /\ Len(tried) >= 2) => normOut.value.via = tried[Len(tried)]

\* every operation failed, the intersects test included, and the original
\* candidate came back
C13_Witness ==
    /\ ClipCallDone
    /\ normOut.tried = ClipOrder
    /\ \A op \in ClipOps : normIn.ops[op] = "raises"
    /\ normOut.value.via = "original"

-----------------------------------------------------------------------------
(* Claims about the simplification *)

\* C14, under SpecBuild: with a tolerance above zero every clipped land type
\* is in the report, in order, and one whose simplified geometry is empty is
\* there with its unsimplified geometry, also next to shapes that simplify to
\* something
C14_EveryShapeKept ==
    (BuildDone /\ buildOut.status = "200" /\ buildIn.simplify_tolerance > 0) =>
        LET clipped == prepare_clipped_shapes(buildIn.world.landtypes) IN
        /\ Len(buildOut.landtypes) = Len(clipped)
        /\ \A i \in 1..Len(clipped) :
              /\ buildOut.landtypes[i].geom.src = clipped[i].geom.src
              /\ clipped[i].geom.simp = "empty" => ~buildOut.landtypes[i].geom.simplified

KmlDone == buildOut # Pending

\* the call got past the fetches and the not-found test
KmlReachedSimplify ==
    /\ KmlDone
    /\ buildOut.status \notin {"404", "upstream_error"}
    /\ buildIn.simplify_tolerance > 0

\* C15, under SpecKml: a simplify that raises on a shape is not surfaced by
\* export_kml; the export answers with its document
C15_SimplifyFailureNotSurfaced ==
    KmlReachedSimplify => buildOut.status = "200"

-----------------------------------------------------------------------------
(* Claims about the water bundles and the folder tree, under SpecBuild *)

\* the children of the Water folder of a report, none without the folder
WaterChildren(report) ==
    IF \E i \in 1..Len(report.top_level_groups) : report.top_level_groups[i].name = "Water"
    THEN (CHOOSE g \in Range(report.top_level_groups) : g.name = "Water").children
    ELSE <<>>

\* the sub-folders of the water layers: the children after the bores' one
LayerChildren(report) ==
    IF report.bore_points # <<>> THEN Tail(WaterChildren(report)) ELSE WaterChildren(report)

\* C16: every water bundle _prepare_water_layers returned has a shape, a
\* point or a feature, and every sub-folder placed under Water for a water
\* layer holds a shape or a point
C16_NoEmptyWaterBundle ==
    BuildAnswered =>
        /\ \A i \in 1..Len(buildOut.water_layers) :
              \/ buildOut.water_layers[i].shapes > 0
              \/ buildOut.water_layers[i].points > 0
              \/ buildOut.water_layers[i].features > 0
        /\ buildOut.status = "200" =>
              \A i \in 1..Len(LayerChildren(buildOut)) :
                  \/ LayerChildren(buildOut)[i].shapes > 0
                  \/ LayerChildren(buildOut)[i].points > 0

\* the names of the top-level folders a report's categories call for
ExpectedFolders(report) ==
    (IF report.landtypes # <<>> THEN <<"Land Types">> ELSE <<>>)
    \o (IF report.vegetation # <<>> THEN <<"Vegetation">> ELSE <<>>)
    \o (IF report.easements # <<>> THEN <<"Easements">> ELSE <<>>)
    \o (IF report.bore_points # <<>> \/ report.water_layers # <<>> THEN <<"Water">> ELSE <<>>)

\* the ids of the upstream layers that give a bundle, in upstream order
UpstreamLayerIds(world) ==
    LET kept == SelectSeq(world.water, LAMBDA layer : ~WaterLayerSkipped(layer))
    IN  [i \in 1..Len(kept) |-> kept[i].layer_id]

\* C17: the document has one top-level folder per non-empty category, in the
\* order Land Types, Vegetation, Easements, Water; Water is there exactly
\* with a bore point or a water bundle; its first child is "Groundwater
\* Bores" when there are bore points, and then comes one sub-folder per water
\* bundle in upstream layer order
C17_FoldersByCategory ==
    (BuildDone /\ buildOut.status = "200") =>
        /\ [i \in 1..Len(buildOut.top_level_groups) |-> buildOut.top_level_groups[i].name]
              = ExpectedFolders(buildOut)
        /\ Len(WaterChildren(buildOut))
              = (IF buildOut.bore_points # <<>> THEN 1 ELSE 0) + Len(buildOut.water_layers)
        /\ buildOut.bore_points # <<>> =>
              /\ WaterChildren(buildOut)[1].name = "Groundwater Bores"
              /\ WaterChildren(buildOut)[1].points = Len(buildOut.bore_points)
        /\ [i \in 1..Len(LayerChildren(buildOut)) |-> LayerChildren(buildOut)[i].color_key[2]]
              = UpstreamLayerIds(buildIn.world)
        /\ \A i \in 1..Len(LayerChildren(buildOut)) :
              /\ LayerChildren(buildOut)[i].shapes = buildOut.water_layers[i].shapes
              /\ LayerChildren(buildOut)[i].points = buildOut.water_layers[i].points

\* a report with all four folders, bore points and two water bundles
C17_Witness ==
    /\ BuildDone /\ buildOut.status = "200"
    /\ Len(buildOut.top_level_groups) = 4
    /\ buildOut.bore_points # <<>>
    /\ Len(buildOut.water_layers) = 2
    /\ Len(WaterChildren(buildOut)) = 3

-----------------------------------------------------------------------------
(* Claims about the easement labels, under SpecBuild *)

\* the pieces of a text between the occurrences of a separator
RECURSIVE SplitAt(_, _)
SplitAt(text, sep) ==
    IF \A k \in 1..Len(text) : text[k] # sep THEN <<text>>
    ELSE LET first == CHOOSE k \in 1..Len(text) :
                          text[k] = sep /\ \A j \in 1..(k - 1) : text[j] # sep
         IN  <<SubSeq(text, 1, first - 1)>> \o SplitAt(SubSeq(text, first + 1, Len(text)), sep)

LabelNames == <<"Lot/Plan: ", "Parcel Type: ", "Tenure: ", "Alias: ", "Area: ">>

\* the parts of the label of the i-th easement of a report
LabelParts(report, i) == SplitAt(report.easements[i].code, " | ")

\* digits, a point, two digits, " ha"
IsAreaText(text) ==
    /\ Len(text) >= 5
    /\ text[Len(text)] = " ha"
    /\ text[Len(text) - 3] = "."
    /\ \A k \in (1..(Len(text) - 1)) \ {Len(text) - 3} : text[k] \in Range(DigitChars)

\* none of the attributes named has a non-blank text in the upstream record
NotSupplied(properties, aliases) ==
    \A k \in 1..Len(aliases) :
        properties[aliases[k]] = None \/ strip(properties[aliases[k]]) = <<>>

\* the upstream easement records that reach the report
EasementsInParcel(world) ==
    { world.easements[k] : k \in { j \in 1..Len(world.easements) :
          world.easements[j].has_geometry /\ world.easements[j].clip = "in" } }

\* C18: every easement label is "Lot/Plan", "Parcel Type", "Tenure", "Alias",
\* "Area" in that order joined by " | "; no part shows a blank, a value that
\* upstream left absent or blank shows "-", and the area is digits, a point
\* and two decimals followed by " ha"
C18_EasementLabelParts ==
    (BuildDone /\ buildOut.status = "200") =>
        \A i \in 1..Len(buildOut.easements) :
            /\ Len(LabelParts(buildOut, i)) = 5
            /\ \A k \in 1..5 :
                  /\ LabelParts(buildOut, i)[k] # <<>>
                  /\ LabelParts(buildOut, i)[k][1] = LabelNames[k]
            /\ \A k \in 1..4 :
                  /\ Tail(LabelParts(buildOut, i)[k]) # <<>>
                  /\ strip(Tail(LabelParts(buildOut, i)[k])) = Tail(LabelParts(buildOut, i)[k])
            /\ IsAreaText(Tail(LabelParts(buildOut, i)[5]))
            /\ \E f \in EasementsInParcel(buildIn.world) :
                  /\ NotSupplied(f.properties, EasementParcelTypeAliases)
                        => Tail(LabelParts(buildOut, i)[2]) = <<"-">>
                  /\ NotSupplied(f.properties, EasementTenureAliases)
                        => Tail(LabelParts(buildOut, i)[3]) = <<"-">>
                  /\ NotSupplied(f.properties, EasementAliasAliases)
                        => Tail(LabelParts(buildOut, i)[4]) = <<"-">>

\* an easement with a tenure and no alias: "Tenure: t", "Alias: -", "Area: 1.00 ha"
C18_Witness ==
    /\ BuildDone /\ buildOut.status = "200"
    /\ Len(buildOut.easements) = 1
    /\ buildOut.easements[1].code
          = <<"Lot/Plan: ", "A", " | ", "Parcel Type: ", "-", " | ", "Tenure: ", "t", " | ",
              "Alias: ", "-", " | ", "Area: ", "1", ".", "0", "0", " ha">>

\* C19: the area in an easement's label is the area of the clipped geometry
\* (nothing, shown as zero, when that is missing), also when it is zero, and
\* never the area attribute of the upstream record
C19_AreaAlwaysRecomputed ==
    (BuildDone /\ buildOut.status = "200") =>
        \A i \in 1..Len(buildOut.easements) :
            \E f \in EasementsInParcel(buildIn.world) :
                Tail(LabelParts(buildOut, i)[5])
                    = FormatTwoDecimals(IF f.area = None THEN Num(0) ELSE f.area) \o <<" ha">>

-----------------------------------------------------------------------------
(* Claims about the water colors, under Spec *)

\* the sub-folders of the water layers in one parcel's folder of the merged
\* document: the children of its Water folder after the bores' one
MergedLayerChildren(group, report) ==
    LET water == SelectSeq(group.subgroups, LAMBDA g : g.name = "Water")
    IN  IF water = <<>> THEN <<>>
        ELSE IF report.bore_points # <<>> THEN Tail(water[1].children)
        ELSE water[1].children

\* the color keys of the children are WATER-<id> of the bundles, one by one
KeyedByOwnLayer(children, water_layers) ==
    /\ Len(children) = Len(water_layers)
    /\ \A i \in 1..Len(children) :
          children[i].color_key = <<"WATER-", water_layers[i].layer_id>>

\* C20: in every report and in every parcel folder of a merged export the
\* shapes of a water layer are colored by the key WATER-<id> of their own
\* layer, so a layer id has the same key in every parcel of the run
C20_WaterColorByOwnLayer ==
    /\ \A k \in 1..Len(upLog) :
          ReportOf(k).status = "200" =>
              KeyedByOwnLayer(LayerChildren(ReportOf(k)), ReportOf(k).water_layers)
    /\ mode = "merged" =>
          \A k \in 1..Len(nested_groups) :
              KeyedByOwnLayer(MergedLayerChildren(nested_groups[k], ReportOf(k)),
                              ReportOf(k).water_layers)

\* a merged export of two parcels, the first with water layers 2 and 1, the
\* second with water layer 1
C20_Witness ==
    /\ mode = "merged" /\ Done /\ response.status = "200"
    /\ Len(nested_groups) = 2
    /\ Len(MergedLayerChildren(nested_groups[1], ReportOf(1))) = 2
    /\ Len(MergedLayerChildren(nested_groups[2], ReportOf(2))) = 1
    /\ ReportOf(1).water_layers[2].layer_id = ReportOf(2).water_layers[1].layer_id
    /\ ReportOf(1).water_layers[1].layer_id # ReportOf(1).water_layers[2].layer_id

-----------------------------------------------------------------------------
(* Claims about the easement colors, under SpecBuild *)

\* the composite of the i-th easement of a report as the report shows it:
\* owner, parcel type, tenure and alias of its label, and its display name
CompositeOf(report, i) ==
    <<Tail(LabelParts(report, i)[1]), Tail(LabelParts(report, i)[2]),
      Tail(LabelParts(report, i)[3]), Tail(LabelParts(report, i)[4]),
      report.easements[i].name>>

\* C21: two easements of a report have the same color key exactly when
\* their composites (owner, parcel type, tenure, alias, display name) are
\* the same
C21_ColorKeyIsComposite ==
    (BuildDone /\ buildOut.status = "200") =>
        \A i, j \in 1..Len(buildOut.easements) :
            (buildOut.easements[i].color_key = buildOut.easements[j].color_key)
                <=> (CompositeOf(buildOut, i) = CompositeOf(buildOut, j))

-----------------------------------------------------------------------------
(* Claims about the icon assets, under SpecAssets *)

\* the keys of a sequence of (key, value) pairs
KeysOf(pairs) == { pairs[i][1] : i \in 1..Len(pairs) }

\* the value of the first pair with the key
FirstValue(pairs, key) ==
    pairs[CHOOSE i \in 1..Len(pairs) :
              pairs[i][1] = key /\ \A j \in 1..(i - 1) : pairs[j][1] # key][2]

\* the map holds each key of the pairs once, with the value of its first pair
FirstWriterWins(assets, pairs) ==
    /\ KeysOf(assets) = KeysOf(pairs)
    /\ \A i, j \in 1..Len(assets) : assets[i][1] = assets[j][1] => i = j
    /\ \A i \in 1..Len(assets) : assets[i][2] = FirstValue(pairs, assets[i][1])

\* the assets of the parcels merged so far, in the order merged
RECURSIVE AssetsMerged(_)
AssetsMerged(merged) ==
    IF merged = <<>> THEN <<>> ELSE Head(merged).bore_assets \o AssetsMerged(Tail(merged))

\* C22: the shared map holds for each href the bytes of the first parcel
\* merged that had it, its keys are the union of the parcels' keys, and the
\* map of the parcel being built holds for each href the first bytes offered
C22_FirstWriterWins ==
    /\ FirstWriterWins(kmz_assets, AssetsMerged(reports))
    /\ FirstWriterWins(boreOut.assets, boreOut.offered)

\* two parcels merged that hold the same href with different bytes
C22_Witness ==
    /\ Len(reports) = 2
    /\ \E i \in 1..Len(reports[1].bore_assets), j \in 1..Len(reports[2].bore_assets) :
          /\ reports[1].bore_assets[i][1] = reports[2].bore_assets[j][1]
          /\ reports[1].bore_assets[i][2] # reports[2].bore_assets[j][2]
    /\ KeysOf(kmz_assets) = IconHrefs

-----------------------------------------------------------------------------
(* Claims about the icon content types, under SpecIcon *)

IconCallDone == normIn.kind \in {"href", "content_type"} /\ normOut # Pending

\* the text ends with a name character, a dot and the extension, in any case
EndsWithExtension(text, ext) ==
    /\ Len(text) >= Len(ext) + 2
    /\ lower(SubSeq(text, Len(text) - Len(ext) + 1, Len(text))) = ext
    /\ text[Len(text) - Len(ext)] = "."
    /\ text[Len(text) - Len(ext) - 1] \notin {".", "/"}

\* two content types that name the same format
SameFormat(a, b) == a = b \/ {a, b} \subseteq {"image/jpeg", "image/jpg"}

-----------------------------------------------------------------------------
(* Claims about the inlined icons, under SpecInline *)

InlineDone == boreOut # Pending

\* the asset map has bytes, and not empty ones, for the href
HasBytes(assets, icon_href) ==
    \E k \in 1..Len(assets) :
        assets[k][1] = icon_href /\ assets[k][2] # None /\ assets[k][2] # EmptyBytes

-----------------------------------------------------------------------------
(* The independent archive, under Spec *)

ZipDone == pc = "done" /\ response # Pending /\ response.kind = "zip"

\* the name the archive gives the parcel lotplan under the prefix of the request
NameFor(lotplan, filename_prefix) ==
    _sanitize_filename(filename_prefix) \o <<" - ", "Property Report - ">>
        \o lotplan \o <<".kmz">>

\* C25: the archive of _create_property_report_zip has one entry per
\* identifier of the work list, in the order of the list; the names are
\* pairwise distinct and made of the sanitized prefix and the parcel id; the
\* bytes of each entry are the bytes the build returned for that identifier,
\* with the icon assets of that report only.
C25_ZipEntriesPerIdentifier ==
    ZipDone =>
        /\ Len(response.entries) = Len(items)
        /\ \A i \in 1..Len(response.entries) :
              /\ upLog[i].report.lotplan = items[i]
              /\ response.entries[i].name = NameFor(items[i], payload.filename_prefix)
              /\ response.entries[i].bytes = kmz_bytes(upLog[i].report)
              /\ response.entries[i].bytes.assets = upLog[i].report.bore_assets
        /\ \A i, j \in 1..Len(response.entries) :
              i # j => response.entries[i].name # response.entries[j].name

\* an archive of two parcels, one of them with icon assets the other lacks
C25_Witness ==
    /\ ZipDone
    /\ Len(response.entries) = 2
    /\ response.entries[1].bytes.assets # response.entries[2].bytes.assets
    /\ \E i \in 1..2 : response.entries[i].bytes.assets # <<>>


-----------------------------------------------------------------------------
(* The merged document against the single reports, under Spec *)

MergedDone ==
    pc = "done" /\ mode = "merged" /\ response # Pending /\ response.status = "200"

\* the shapes the single report of a parcel puts in the folder called name
ShapesIn(report, name) ==
    CASE name = "Land Types" -> Len(report.landtypes)
      [] name = "Vegetation" -> Len(report.vegetation)
      [] name = "Easements"  -> Len(report.easements)
      [] OTHER               -> 0

\* C26: the merged document has one top-level folder per identifier of the
\* work list, in the order of the list and named by the normalized
\* identifier; the folder of a parcel holds the categories of the single
\* report of that parcel, in the same order, with the same shapes and, under
\* Water, the same sub-folders with the same shapes and points.
C26_MergedFoldersAsSingle ==
    MergedDone =>
        /\ Len(response.document) = Len(items)
        /\ \A k \in 1..Len(response.document) :
              /\ response.document[k].lotplan = items[k]
              /\ items[k] = normalize_lotplan(items[k])
              /\ upLog[k].report.lotplan = items[k]
              /\ [i \in 1..Len(response.document[k].subgroups) |->
                     [name |-> response.document[k].subgroups[i].name,
                      children |-> response.document[k].subgroups[i].children]]
                 = upLog[k].report.top_level_groups
              /\ \A i \in 1..Len(response.document[k].subgroups) :
                     response.document[k].subgroups[i].shapes
                         = ShapesIn(upLog[k].report, response.document[k].subgroups[i].name)

\* a merged document of two parcels, the first with two water layers and
\* the second with vegetation and an easement
C26_Witness ==
    /\ MergedDone
    /\ Len(response.document) = 2
    /\ Len(upLog[1].report.water_layers) = 2
    /\ upLog[2].report.vegetation # <<>>
    /\ upLog[2].report.easements # <<>>


-----------------------------------------------------------------------------
(* The /vector response, under SpecVector *)

VectorDone == buildOut # Pending /\ buildOut.status \in {"200", "404"}

\* the water layers of a body hold no feature
NoWaterFeature(layers) == \A i \in 1..Len(layers) : layers[i].features = 0

\* C27: the body of a /vector response of status 200 or 404 has an
\* "easements" feature collection with a "features" list; the status is 404
\* exactly when the land types, the bores, the easements and the water
\* features of the body are all empty, and the body of a 404 has an error
\* field.
C27_VectorBodyAndStatus ==
    VectorDone =>
        /\ "easements" \in DOMAIN buildOut.body
        /\ buildOut.body.easements.type = "FeatureCollection"
        /\ "features" \in DOMAIN buildOut.body.easements
        /\ DOMAIN buildOut.body.easements.features = 1..Len(buildOut.body.easements.features)
        /\ buildOut.status = "404" <=>
              /\ buildOut.body.landtypes.features = <<>>
              /\ buildOut.body.bores.features = <<>>
              /\ buildOut.body.easements.features = <<>>
              /\ NoWaterFeature(buildOut.body.water.layers)
        /\ buildOut.status = "404" => "error" \in DOMAIN buildOut.body

\* a 404 for a parcel whose upstream answers hold features that the loops
\* leave out
C27_Witness404 ==
    /\ VectorDone /\ buildOut.status = "404"
    /\ buildIn.world.easements # <<>>
    /\ buildIn.world.landtypes # <<>>
    /\ buildIn.world.water # <<>>

\* a 200 that only the easements of the parcel give
C27_Witness ==
    /\ VectorDone /\ buildOut.status = "200"
    /\ buildOut.body.easements.features # <<>>
    /\ buildOut.body.landtypes.features = <<>>
    /\ buildOut.body.bores.features = <<>>
    /\ NoWaterFeature(buildOut.body.water.layers)


-----------------------------------------------------------------------------
(* The temporary paths of the raster export, under SpecTiff *)

TiffDone == pc = "done" /\ payload # Pending /\ payload.endpoint = "export"

\* C28: when a call of export_geotiff has ended, with a download, with the
\* JSON summary or with an error raised by the rendering or by the read, the
\* temporary directory and the GeoTIFF file in it no longer exist.
C28_TempGoneAtEnd == TiffDone => tmpfs = {}


-----------------------------------------------------------------------------
(* The work list of export_any, under Spec *)

AnyStarted == payload.endpoint = "export_any" /\ pc # "start"

\* the identifiers supplied, the single lotplan field after the list
Supplied(request) ==
    request.lotplans \o (IF request.lotplan = None THEN <<>> ELSE <<request.lotplan>>)

\* the place of the first supplied identifier that normalizes to lp
FirstPlace(request, lp) ==
    CHOOSE i \in 1..Len(Supplied(request)) :
        /\ normalize_lotplan(Supplied(request)[i]) = lp
        /\ \A j \in 1..(i - 1) : normalize_lotplan(Supplied(request)[j]) # lp

\* C29: the work list of export_any holds the normalized values of the
\* supplied identifiers that are not blank, each once, in the order of their
\* first occurrence with the single lotplan field last; no identifier is
\* built twice; one identifier gives the single-parcel KMZ, more than one
\* with a filename_prefix the independent archive, more than one without
\* the merged document.
C29_WorkListAndMode ==
    AnyStarted =>
        /\ Range(items) = { normalize_lotplan(Supplied(payload)[i]) :
                               i \in 1..Len(Supplied(payload)) } \ {<<>>}
        /\ \A i, j \in 1..Len(items) :
              i < j => FirstPlace(payload, items[i]) < FirstPlace(payload, items[j])
        /\ Len(upLog) <= Len(items)
        /\ \A k \in 1..Len(upLog) : upLog[k].report.lotplan = items[k]
        /\ \A i, j \in 1..Len(upLog) :
              i # j => upLog[i].report.lotplan # upLog[j].report.lotplan
        /\ Len(items) = 1 => mode = "single"
        /\ Len(items) > 1 /\ Truthy(payload.filename_prefix) => mode = "zip"
        /\ Len(items) > 1 /\ ~Truthy(payload.filename_prefix) => mode = "merged"
        /\ (pc = "done" /\ response.status = "200") =>
              response.kind = (IF mode = "zip" THEN "zip" ELSE "kmz")

\* a request whose list names one parcel twice in different spellings and
\* whose lotplan field names another, served by two builds
C29_Witness ==
    /\ AnyStarted /\ pc = "done" /\ response.status = "200"
    /\ Len(payload.lotplans) = 2
    /\ payload.lotplans[1] # payload.lotplans[2]
    /\ payload.lotplan # None
    /\ Len(items) = 2 /\ Len(upLog) = 2
    /\ normalize_lotplan(payload.lotplans[1]) = normalize_lotplan(payload.lotplans[2])


-----------------------------------------------------------------------------
(* The bores of /vector/bulk against /vector, under SpecVectorBulk *)

VectorBulkDone ==
    /\ pc = "done" /\ payload # Pending /\ payload.endpoint = "vector_bulk"
    /\ response.status = "200"

\* the features of a list that carry the identifier lotplan
FeaturesOf(features, lotplan) ==
    SelectSeq(features, LAMBDA f : f.properties.lotplan = lotplan)

\* C30: in the body of /vector/bulk the bores attributed to an identifier
\* are the bores /vector reports for that identifier alone, whichever
\* identifiers were processed before it.
C30_BoresAsVectorAlone ==
    VectorBulkDone =>
        \A k \in 1..Len(items) :
            FeaturesOf(response.bores, items[k])
                = vector_geojson(items[k], payload.upstream[items[k]]).body.bores.features

=============================================================================
